---- MODULE Spec2Model ----
(***************************************************************************)
(* A model of tools/youtube-downloader/youtube_downloader.py: the          *)
(* resolution of the request (target quality, policy, clients, cookie      *)
(* browsers), the attempt plan, and the nested retry loop of               *)
(* download_youtube_mp4_720p over quality modes and attempts.              *)
(*                                                                         *)
(* Python strings that the code strips, lower-cases, parses or searches    *)
(* are sequences of one-character strings, so that strip(), lower(),       *)
(* int() and the `in` substring test are computed, not looked up.  Str     *)
(* turns such a sequence into a TLA+ string where the code formats text.   *)
(***************************************************************************)
EXTENDS Integers, Sequences, FiniteSets, TLC

(***************************************************************************)
(* Python values                                                           *)
(***************************************************************************)

\* Python None where a str is expected: no Python string has a two-letter element.
NoneStr == <<"None">>

\* Python None where an int is expected (a height, a CLI integer); the modelled
\* integer inputs are all different from it.
NoneInt == -1

\* bool(value) of a str | None
Truthy(s) == s # NoneStr /\ s # <<>>

Whitespace == {" ", "\t", "\n"}

UpperLetters ==
    <<"A", "B", "C", "D", "E", "F", "G", "H", "I", "J", "K", "L", "M",
      "N", "O", "P", "Q", "R", "S", "T", "U", "V", "W", "X", "Y", "Z">>

LowerLetters ==
    <<"a", "b", "c", "d", "e", "f", "g", "h", "i", "j", "k", "l", "m",
      "n", "o", "p", "q", "r", "s", "t", "u", "v", "w", "x", "y", "z">>

LowerChar(c) ==
    IF \E i \in 1..26 : UpperLetters[i] = c
    THEN LowerLetters[CHOOSE i \in 1..26 : UpperLetters[i] = c]
    ELSE c

\* str.lower()
lower(s) == [i \in 1..Len(s) |-> LowerChar(s[i])]

RECURSIVE lstrip(_)
lstrip(s) == IF s # <<>> /\ Head(s) \in Whitespace THEN lstrip(Tail(s)) ELSE s

RECURSIVE rstrip(_)
rstrip(s) ==
    IF s # <<>> /\ s[Len(s)] \in Whitespace THEN rstrip(SubSeq(s, 1, Len(s) - 1)) ELSE s

\* str.strip()
strip(s) == rstrip(lstrip(s))

\* str.startswith(prefix)
startswith(s, prefix) == Len(s) >= Len(prefix) /\ SubSeq(s, 1, Len(prefix)) = prefix

\* `sub in s` for two Python strings
contains(s, sub) ==
    \E i \in 1..(Len(s) - Len(sub) + 1) : \A j \in 1..Len(sub) : s[i + j - 1] = sub[j]

\* the text of a character sequence, as a TLA+ string
RECURSIVE Str(_)
Str(s) ==
    IF s = <<>> THEN ""
    ELSE IF Len(s) = 1 THEN s[1]
    ELSE Str(SubSeq(s, 1, Len(s) \div 2)) \o Str(SubSeq(s, (Len(s) \div 2) + 1, Len(s)))

\* sep.join(parts) for a list of TLA+ strings
RECURSIVE Join(_, _)
Join(sep, parts) ==
    IF parts = <<>> THEN ""
    ELSE IF Len(parts) = 1 THEN parts[1]
    ELSE parts[1] \o sep \o Join(sep, Tail(parts))

Digits == <<"0", "1", "2", "3", "4", "5", "6", "7", "8", "9">>

IsDigit(c) == \E i \in 1..10 : Digits[i] = c

DigitValue(c) == (CHOOSE i \in 1..10 : Digits[i] = c) - 1

\* the digits of an int() literal after the sign: digits, single underscores between them
IsDigitRun(s) ==
    /\ s # <<>>
    /\ IsDigit(s[1])
    /\ IsDigit(s[Len(s)])
    /\ \A i \in 1..Len(s) : IsDigit(s[i]) \/ s[i] = "_"
    /\ \A i \in 1..(Len(s) - 1) : ~(s[i] = "_" /\ s[i + 1] = "_")

RECURSIVE DigitRunValue(_, _)
DigitRunValue(s, acc) ==
    IF s = <<>> THEN acc
    ELSE IF Head(s) = "_" THEN DigitRunValue(Tail(s), acc)
    ELSE DigitRunValue(Tail(s), 10 * acc + DigitValue(Head(s)))

Unsigned(s) == IF s # <<>> /\ Head(s) \in {"+", "-"} THEN Tail(s) ELSE s

\* int(value) succeeds (no ValueError)
IsIntLiteral(s) == IsDigitRun(Unsigned(strip(s)))

\* int(value)
IntOf(s) ==
    LET body == strip(s)
        magnitude == DigitRunValue(Unsigned(body), 0)
    IN  IF body # <<>> /\ Head(body) = "-" THEN 0 - magnitude ELSE magnitude

\* a function's normal return, and raise SystemExit(message)
Returns(v) == [raised |-> FALSE, value |-> v]

SystemExit(message) == [raised |-> TRUE, message |-> message]

(***************************************************************************)
(* Module constants                                                        *)
(***************************************************************************)

DEFAULT_TARGET_QUALITY == 720

MIN_TARGET_QUALITY == 144

MAX_TARGET_QUALITY == 4320

DEFAULT_QUALITY_POLICY == <<"s", "t", "r", "i", "c", "t">>

DEFAULT_COOKIES_BROWSER == <<"c", "h", "r", "o", "m", "e">>

COOKIE_BROWSER_FALLBACKS ==
    << <<"s", "a", "f", "a", "r", "i">>, <<"f", "i", "r", "e", "f", "o", "x">> >>

\* os.environ as far as the downloader reads it; NoneStr is an unset variable
EnvNames == {"YT_COOKIES_FROM_BROWSER", "YT_QUALITY_POLICY", "YT_TARGET_QUALITY", "YT_MIN_HEIGHT"}

getenv(env, name) == env[name]

(***************************************************************************)
(* Error classification                                                    *)
(***************************************************************************)

ErrorPrefix == <<"E", "R", "R", "O", "R", ":">>

clean_error_message(message) ==
    LET msg == strip(message)
    IN  IF startswith(msg, ErrorPrefix) THEN strip(SubSeq(msg, 7, Len(msg))) ELSE msg

retryable_markers ==
    { <<"r", "e", "q", "u", "e", "s", "t", "e", "d", " ", "f", "o", "r", "m", "a", "t", " ",
        "i", "s", " ", "n", "o", "t", " ", "a", "v", "a", "i", "l", "a", "b", "l", "e">>,
      <<"o", "n", "l", "y", " ", "i", "m", "a", "g", "e", "s", " ", "a", "r", "e", " ",
        "a", "v", "a", "i", "l", "a", "b", "l", "e">>,
      <<"c", "h", "a", "l", "l", "e", "n", "g", "e", " ", "s", "o", "l", "v", "i", "n", "g", " ",
        "f", "a", "i", "l", "e", "d">>,
      <<"t", "h", "i", "s", " ", "v", "i", "d", "e", "o", " ", "i", "s", " ", "d", "r", "m", " ",
        "p", "r", "o", "t", "e", "c", "t", "e", "d">>,
      <<"n", "o", " ", "v", "i", "d", "e", "o", " ", "f", "o", "r", "m", "a", "t", "s", " ",
        "f", "o", "u", "n", "d">>,
      <<"h", "t", "t", "p", " ", "e", "r", "r", "o", "r", " ", "4", "0", "3">>,
      <<"c", "o", "o", "k", "i", "e", "s", "f", "r", "o", "m", "b", "r", "o", "w", "s", "e", "r">>,
      <<"c", "o", "o", "k", "i", "e">> }

\* a classifier that retries every failure that has a message
is_retryable_download_error_any_message(message) == Len(message) > 0

\* a classifier that forgets message.lower()
is_retryable_download_error_case_sensitive(message) ==
    \E marker \in retryable_markers : contains(message, marker)

\* a classifier that looks for the markers at the start of the message only
is_retryable_download_error_at_start(message) ==
    LET lowered == lower(message)
    IN  \E marker \in retryable_markers : startswith(lowered, marker)

is_retryable_download_error(message) ==
    LET lowered == lower(message)
    IN  \E marker \in retryable_markers : contains(lowered, marker)

(***************************************************************************)
(* Quality Spec Resolver                                                   *)
(***************************************************************************)

parse_target_quality(value, label) ==
    IF value = NoneStr \/ strip(value) = <<>> THEN Returns(DEFAULT_TARGET_QUALITY)
    ELSE IF ~IsIntLiteral(value)
    THEN SystemExit("Invalid " \o label \o "='" \o Str(value) \o "': expected integer.")
    ELSE IF IntOf(value) < MIN_TARGET_QUALITY
    THEN SystemExit(label \o " must be >= " \o ToString(MIN_TARGET_QUALITY) \o ".")
    ELSE IF IntOf(value) > MAX_TARGET_QUALITY
    THEN SystemExit(label \o " cannot be greater than " \o ToString(MAX_TARGET_QUALITY) \o ".")
    ELSE Returns(IntOf(value))

\* a range check without the lower bound
normalize_target_quality_no_minimum(value, label) ==
    IF value > MAX_TARGET_QUALITY
    THEN SystemExit(label \o " cannot be greater than " \o ToString(MAX_TARGET_QUALITY) \o ".")
    ELSE Returns(value)

normalize_target_quality(value, label) ==
    IF value < MIN_TARGET_QUALITY
    THEN SystemExit(label \o " must be >= " \o ToString(MIN_TARGET_QUALITY) \o ".")
    ELSE IF value > MAX_TARGET_QUALITY
    THEN SystemExit(label \o " cannot be greater than " \o ToString(MAX_TARGET_QUALITY) \o ".")
    ELSE Returns(value)

parse_min_height(value) == parse_target_quality(value, "YT_MIN_HEIGHT")

normalize_min_height(value) == normalize_target_quality(value, "min-height")

\* a resolver that reads the environment before the argument
resolve_quality_policy_env_first(cli_value, env) ==
    LET env_value == getenv(env, "YT_QUALITY_POLICY")
        raw == IF Truthy(env_value) THEN env_value
               ELSE IF Truthy(cli_value) THEN cli_value
               ELSE DEFAULT_QUALITY_POLICY
        value == lower(strip(raw))
    IN  IF Str(value) \notin {"strict", "best_effort"}
        THEN SystemExit("quality policy must be strict or best_effort")
        ELSE Returns(Str(value))

resolve_quality_policy(cli_value, env) ==
    LET env_value == getenv(env, "YT_QUALITY_POLICY")
        raw == IF Truthy(cli_value) THEN cli_value
               ELSE IF Truthy(env_value) THEN env_value
               ELSE DEFAULT_QUALITY_POLICY
        value == lower(strip(raw))
    IN  IF Str(value) \notin {"strict", "best_effort"}
        THEN SystemExit("quality policy must be strict or best_effort")
        ELSE Returns(Str(value))

\* a resolver that reads YT_TARGET_QUALITY before the arguments
resolve_target_quality_env_first(cli_value, min_height, env) ==
    LET env_target == getenv(env, "YT_TARGET_QUALITY")
    IN  IF Truthy(env_target) /\ strip(env_target) # <<>>
        THEN parse_target_quality(env_target, "YT_TARGET_QUALITY")
        ELSE IF cli_value # NoneInt THEN normalize_target_quality(cli_value, "target-quality")
        ELSE IF min_height # NoneInt THEN normalize_min_height(min_height)
        ELSE parse_min_height(getenv(env, "YT_MIN_HEIGHT"))

resolve_target_quality(cli_value, min_height, env) ==
    LET env_target == getenv(env, "YT_TARGET_QUALITY")
    IN  IF cli_value # NoneInt THEN normalize_target_quality(cli_value, "target-quality")
        ELSE IF min_height # NoneInt THEN normalize_min_height(min_height)
        ELSE IF Truthy(env_target) /\ strip(env_target) # <<>>
        THEN parse_target_quality(env_target, "YT_TARGET_QUALITY")
        ELSE parse_min_height(getenv(env, "YT_MIN_HEIGHT"))

(***************************************************************************)
(* Auth/Client Enumerator                                                  *)
(***************************************************************************)

resolve_effective_cookies_browser(cli_value, env) ==
    LET env_value == getenv(env, "YT_COOKIES_FROM_BROWSER")
        raw == IF cli_value # NoneStr /\ strip(cli_value) # <<>> THEN strip(cli_value)
               ELSE IF Truthy(env_value) /\ strip(env_value) # <<>> THEN strip(env_value)
               ELSE DEFAULT_COOKIES_BROWSER
    IN  IF Str(lower(raw)) \in {"none", "off", "false"} THEN NoneStr ELSE raw

\* the loop `for candidate in COOKIE_BROWSER_FALLBACKS: if candidate not in base: append`
RECURSIVE AppendMissing(_, _)
AppendMissing(base, candidates) ==
    IF candidates = <<>> THEN base
    ELSE IF \E i \in 1..Len(base) : base[i] = Head(candidates)
    THEN AppendMissing(base, Tail(candidates))
    ELSE AppendMissing(Append(base, Head(candidates)), Tail(candidates))

\* a resolver that appends the fallback browsers to a supplied browser as well
resolve_effective_cookies_browsers_always_fallbacks(cli_value, env) ==
    LET browser == resolve_effective_cookies_browser(cli_value, env)
    IN  IF browser = NoneStr THEN <<>>
        ELSE AppendMissing(<<browser>>, COOKIE_BROWSER_FALLBACKS)

\* a resolver that appends the fallback browsers without the membership test
resolve_effective_cookies_browsers_no_skip(cli_value, env) ==
    LET browser == resolve_effective_cookies_browser(cli_value, env)
    IN  IF browser = NoneStr THEN <<>>
        ELSE IF cli_value # NoneStr /\ strip(cli_value) # <<>> THEN <<browser>>
        ELSE <<browser>> \o COOKIE_BROWSER_FALLBACKS

resolve_effective_cookies_browsers(cli_value, env) ==
    LET browser == resolve_effective_cookies_browser(cli_value, env)
    IN  IF browser = NoneStr THEN <<>>
        ELSE IF cli_value # NoneStr /\ strip(cli_value) # <<>> THEN <<browser>>
        ELSE AppendMissing(<<browser>>, COOKIE_BROWSER_FALLBACKS)

\* [client.strip() for client in player_clients if isinstance(client, str) and client.strip()]
RECURSIVE CleanedClients(_)
CleanedClients(player_clients) ==
    IF player_clients = <<>> THEN <<>>
    ELSE IF Head(player_clients) # NoneStr /\ strip(Head(player_clients)) # <<>>
    THEN <<strip(Head(player_clients))>> \o CleanedClients(Tail(player_clients))
    ELSE CleanedClients(Tail(player_clients))

\* player_clients: None, or a list of strings
NoClients == [is_none |-> TRUE, list |-> <<>>]

ClientList(list) == [is_none |-> FALSE, list |-> list]

resolve_effective_clients(player_clients) ==
    IF player_clients.is_none \/ player_clients.list = <<>> THEN Returns(<<NoneStr>>)
    ELSE IF CleanedClients(player_clients.list) = <<>>
    THEN SystemExit("player clients list cannot be empty")
    ELSE Returns(CleanedClients(player_clients.list))

client_label(client) == IF Truthy(client) THEN Str(client) ELSE "auto"

(***************************************************************************)
(* Attempt Planner and Quality Mode Sequencer                              *)
(***************************************************************************)

build_exact_format_selector(target_quality) ==
    "bestvideo[height=" \o ToString(target_quality) \o "]+bestaudio/best[height="
        \o ToString(target_quality) \o "]"

build_best_below_or_equal_selector(target_quality) ==
    "bestvideo[height<=" \o ToString(target_quality) \o "]+bestaudio/"
        \o "best[height<=" \o ToString(target_quality) \o "]"

\* the first loop of build_attempt_plan: one entry per client, no cookies
PlainAttempts(clients) ==
    [i \in 1..Len(clients) |->
        [client |-> clients[i], auth_context |-> "none", browser |-> NoneStr]]

\* the inner loop of build_attempt_plan for one browser
CookieAttempts(clients, browser) ==
    [i \in 1..Len(clients) |->
        [client |-> clients[i], auth_context |-> "cookies:" \o Str(browser), browser |-> browser]]

\* the second loop of build_attempt_plan: browsers outer, clients inner
RECURSIVE CookieRounds(_, _)
CookieRounds(clients, cookie_browsers) ==
    IF cookie_browsers = <<>> THEN <<>>
    ELSE CookieAttempts(clients, Head(cookie_browsers))
             \o CookieRounds(clients, Tail(cookie_browsers))

\* a plan that tries the cookie rounds before the plain attempts
build_attempt_plan_cookies_first(clients, cookie_browsers) ==
    CookieRounds(clients, cookie_browsers) \o PlainAttempts(clients)

\* a plan that goes client by client: the plain attempt, then that client's cookie attempts
build_attempt_plan_by_client(clients, cookie_browsers) ==
    [k \in 1..(Len(clients) * (1 + Len(cookie_browsers))) |->
        LET client == clients[((k - 1) \div (1 + Len(cookie_browsers))) + 1]
            slot == (k - 1) % (1 + Len(cookie_browsers))
        IN  IF slot = 0
            THEN [client |-> client, auth_context |-> "none", browser |-> NoneStr]
            ELSE [client |-> client,
                  auth_context |-> "cookies:" \o Str(cookie_browsers[slot]),
                  browser |-> cookie_browsers[slot]]]

build_attempt_plan(clients, cookie_browsers) ==
    PlainAttempts(clients) \o CookieRounds(clients, cookie_browsers)

\* a mode list that ignores the policy
QualityModes_always_both(quality_policy, target_quality) ==
    << [name |-> "exact_target",
        selector |-> build_exact_format_selector(target_quality),
        requires_exact_match |-> TRUE],
       [name |-> "best_below_or_equal_target",
        selector |-> build_best_below_or_equal_selector(target_quality),
        requires_exact_match |-> FALSE] >>

\* a mode list that puts the relaxed mode first under strict
QualityModes_relaxed_first(quality_policy, target_quality) ==
    << [name |-> "best_below_or_equal_target",
        selector |-> build_best_below_or_equal_selector(target_quality),
        requires_exact_match |-> FALSE] >>
    \o (IF quality_policy = "strict"
        THEN << [name |-> "exact_target",
                 selector |-> build_exact_format_selector(target_quality),
                 requires_exact_match |-> TRUE] >>
        ELSE <<>>)

\* the list quality_modes that download_youtube_mp4_720p builds
QualityModes(quality_policy, target_quality) ==
    (IF quality_policy = "strict"
     THEN << [name |-> "exact_target",
              selector |-> build_exact_format_selector(target_quality),
              requires_exact_match |-> TRUE] >>
     ELSE <<>>)
    \o << [name |-> "best_below_or_equal_target",
           selector |-> build_best_below_or_equal_selector(target_quality),
           requires_exact_match |-> FALSE] >>

\* a test whose strict branch accepts every height up to the target
is_quality_acceptable_strict_at_most(height, min_height, quality_policy) ==
    LET target_quality == normalize_min_height(min_height)
    IN  IF target_quality.raised THEN target_quality
        ELSE IF height = NoneInt THEN Returns(quality_policy = "best_effort")
        ELSE Returns(height <= target_quality.value)

\* target_quality = normalize_min_height(min_height) raises for a target out of range
is_quality_acceptable(height, min_height, quality_policy) ==
    LET target_quality == normalize_min_height(min_height)
    IN  IF target_quality.raised THEN target_quality
        ELSE IF height = NoneInt THEN Returns(quality_policy = "best_effort")
        ELSE IF quality_policy = "strict" THEN Returns(height = target_quality.value)
        ELSE Returns(height <= target_quality.value)

(***************************************************************************)
(* Backend result inspection                                               *)
(***************************************************************************)

\* isinstance(value, int) and value > 0
PositiveInt(value) == value # NoneInt /\ value > 0

\* isinstance(value, str) and value.strip()
NonBlank(value) == value # NoneStr /\ strip(value) # <<>>

RECURSIVE ListMax(_)
ListMax(values) ==
    IF Len(values) = 1 THEN values[1]
    ELSE LET rest == ListMax(Tail(values))
         IN  IF Head(values) >= rest THEN Head(values) ELSE rest

\* heights of info["requested_formats"]
RECURSIVE FormatHeights(_)
FormatHeights(requested_formats) ==
    IF requested_formats = <<>> THEN <<>>
    ELSE (IF PositiveInt(Head(requested_formats).height)
          THEN <<Head(requested_formats).height>> ELSE <<>>)
         \o FormatHeights(Tail(requested_formats))

\* heights of info["requested_downloads"]: the item's own height, else its info_dict's
RECURSIVE DownloadHeights(_)
DownloadHeights(requested_downloads) ==
    IF requested_downloads = <<>> THEN <<>>
    ELSE LET item == Head(requested_downloads)
         IN  (IF PositiveInt(item.height) THEN <<item.height>>
              ELSE IF PositiveInt(item.info_dict.height) THEN <<item.info_dict.height>>
              ELSE <<>>)
             \o DownloadHeights(Tail(requested_downloads))

\* a missing or non-list requested_formats / requested_downloads is the empty list:
\* both fall through to the next source
extract_selected_height(info) ==
    IF PositiveInt(info.height) THEN info.height
    ELSE IF FormatHeights(info.requested_formats) # <<>>
    THEN ListMax(FormatHeights(info.requested_formats))
    ELSE IF DownloadHeights(info.requested_downloads) # <<>>
    THEN ListMax(DownloadHeights(info.requested_downloads))
    ELSE NoneInt

RECURSIVE FormatIds(_)
FormatIds(requested_formats) ==
    IF requested_formats = <<>> THEN <<>>
    ELSE (IF NonBlank(Head(requested_formats).format_id)
          THEN <<Head(requested_formats).format_id>> ELSE <<>>)
         \o FormatIds(Tail(requested_formats))

\* "+".join(ids)
RECURSIVE JoinPlus(_)
JoinPlus(ids) ==
    IF Len(ids) = 1 THEN ids[1] ELSE ids[1] \o <<"+">> \o JoinPlus(Tail(ids))

RECURSIVE FirstDownloadId(_)
FirstDownloadId(requested_downloads) ==
    IF requested_downloads = <<>> THEN NoneStr
    ELSE LET item == Head(requested_downloads)
         IN  IF NonBlank(item.format_id) THEN item.format_id
             ELSE IF NonBlank(item.info_dict.format_id) THEN item.info_dict.format_id
             ELSE FirstDownloadId(Tail(requested_downloads))

extract_selected_format_id(info) ==
    IF NonBlank(info.format_id) THEN info.format_id
    ELSE IF FormatIds(info.requested_formats) # <<>>
    THEN JoinPlus(FormatIds(info.requested_formats))
    ELSE FirstDownloadId(info.requested_downloads)

(***************************************************************************)
(* Output directory.  A path is [stem, ext]; NoPath is a missing or blank  *)
(* path field.  The directory is the list of its files, oldest             *)
(* modification time first.                                                *)
(***************************************************************************)

NoPath == [stem |-> "", ext |-> ""]

\* Path.with_suffix(".mp4")
with_suffix_mp4(path) == [stem |-> path.stem, ext |-> ".mp4"]

Range(seq) == {seq[i] : i \in 1..Len(seq)}

\* Path.exists() for a file of the output directory
exists(dir, path) == path \in Range(dir)

RECURSIVE Without(_, _)
Without(dir, path) ==
    IF dir = <<>> THEN <<>>
    ELSE IF Head(dir) = path THEN Without(Tail(dir), path)
    ELSE <<Head(dir)>> \o Without(Tail(dir), path)

\* the directory after the files `writes` were written, in that order
RECURSIVE Written(_, _)
Written(dir, writes) ==
    IF writes = <<>> THEN dir
    ELSE Written(Append(Without(dir, Head(writes)), Head(writes)), Tail(writes))

\* a removal that leaves the file where it is
remove_file_if_exists_keeps(dir, path) == dir

\* a removal that unlinks the name the file had before it was merged into its container
remove_file_if_exists_unmerged(dir, path) ==
    Without(dir, [path EXCEPT !.ext = ".webm"])

\* path.unlink(missing_ok=True)
remove_file_if_exists(dir, path) == Without(dir, path)

RECURSIVE DownloadPaths(_)
DownloadPaths(requested_downloads) ==
    IF requested_downloads = <<>> THEN <<>>
    ELSE (IF Head(requested_downloads).filepath # NoPath
          THEN <<Head(requested_downloads).filepath>> ELSE <<>>)
         \o DownloadPaths(Tail(requested_downloads))

\* the list `candidates` of resolve_downloaded_file_path
PathCandidates(info) ==
    (IF info._filename # NoPath THEN <<info._filename>> ELSE <<>>)
    \o (IF info.filepath # NoPath THEN <<info.filepath>> ELSE <<>>)
    \o DownloadPaths(info.requested_downloads)
    \o (IF info.prepared # NoPath THEN <<info.prepared>> ELSE <<>>)

\* a search that takes a candidate only under the name the metadata gave
RECURSIVE FirstExisting_as_named(_, _)
FirstExisting_as_named(candidates, dir) ==
    IF candidates = <<>> THEN NoPath
    ELSE IF exists(dir, Head(candidates)) THEN Head(candidates)
    ELSE FirstExisting_as_named(Tail(candidates), dir)

RECURSIVE FirstExisting(_, _)
FirstExisting(candidates, dir) ==
    IF candidates = <<>> THEN NoPath
    ELSE IF exists(dir, Head(candidates)) THEN Head(candidates)
    ELSE IF exists(dir, with_suffix_mp4(Head(candidates))) THEN with_suffix_mp4(Head(candidates))
    ELSE FirstExisting(Tail(candidates), dir)

\* a scan of the directory that does not consult the snapshot
CreatedFiles_any(dir, known_paths_before) == dir

\* the files of the directory that are not in the snapshot, oldest first
RECURSIVE CreatedFiles(_, _)
CreatedFiles(dir, known_paths_before) ==
    IF dir = <<>> THEN <<>>
    ELSE (IF Head(dir) \in known_paths_before THEN <<>> ELSE <<Head(dir)>>)
         \o CreatedFiles(Tail(dir), known_paths_before)

resolve_downloaded_file_path(info, dir, known_paths_before) ==
    LET created_files == CreatedFiles(dir, known_paths_before)
    IN  IF FirstExisting(PathCandidates(info), dir) # NoPath
        THEN Returns(FirstExisting(PathCandidates(info), dir))
        ELSE IF created_files # <<>> THEN Returns(created_files[Len(created_files)])
        ELSE SystemExit("Download finished but saved file path could not be determined.")

(***************************************************************************)
(* The quality gate and the fallback flag of download_youtube_mp4_720p     *)
(***************************************************************************)

\* a gate without the second test: the relaxed mode accepts any height
QualityGate_no_cap(requires_exact_match, height, target_quality) ==
    IF requires_exact_match /\ height # target_quality THEN "does_not_match_target"
    ELSE "accept"

\* a gate whose exact test lets an unknown height through
QualityGate_accepts_unknown(requires_exact_match, height, target_quality) ==
    IF requires_exact_match /\ height # NoneInt /\ height # target_quality
    THEN "does_not_match_target"
    ELSE IF ~requires_exact_match /\ height # NoneInt /\ height > target_quality
    THEN "above_target"
    ELSE "accept"

\* a gate whose second test turns down the target height itself
QualityGate_cap_excludes_target(requires_exact_match, height, target_quality) ==
    IF requires_exact_match /\ height # target_quality THEN "does_not_match_target"
    ELSE IF ~requires_exact_match /\ height # NoneInt /\ height >= target_quality
    THEN "above_target"
    ELSE "accept"

\* the two rejection tests of the attempt loop, in the code's order
QualityGate(requires_exact_match, height, target_quality) ==
    IF requires_exact_match /\ height # target_quality THEN "does_not_match_target"
    ELSE IF ~requires_exact_match /\ height # NoneInt /\ height > target_quality
    THEN "above_target"
    ELSE "accept"

\* DownloadOutcome.fallback_reason = None
NoReason == ""

\* a flag that looks at the height alone
Fallback_height_only(height, target_quality, requires_exact_match, quality_policy) ==
    IF height # NoneInt /\ height < target_quality
    THEN [fallback |-> TRUE,
          fallback_reason |-> "requested=" \o ToString(target_quality)
                                  \o ", actual=" \o ToString(height)]
    ELSE [fallback |-> FALSE, fallback_reason |-> NoReason]

\* a flag that tests the mode before the height
Fallback_mode_first(height, target_quality, requires_exact_match, quality_policy) ==
    IF ~requires_exact_match /\ quality_policy = "strict"
    THEN [fallback |-> TRUE,
          fallback_reason |-> "exact_target_unavailable, requested="
                                  \o ToString(target_quality)]
    ELSE IF height # NoneInt /\ height < target_quality
    THEN [fallback |-> TRUE,
          fallback_reason |-> "requested=" \o ToString(target_quality)
                                  \o ", actual=" \o ToString(height)]
    ELSE [fallback |-> FALSE, fallback_reason |-> NoReason]

\* a flag whose second case is raised without its reason
Fallback_mode_without_reason(height, target_quality, requires_exact_match, quality_policy) ==
    IF height # NoneInt /\ height < target_quality
    THEN [fallback |-> TRUE,
          fallback_reason |-> "requested=" \o ToString(target_quality)
                                  \o ", actual=" \o ToString(height)]
    ELSE IF ~requires_exact_match /\ quality_policy = "strict"
    THEN [fallback |-> TRUE, fallback_reason |-> NoReason]
    ELSE [fallback |-> FALSE, fallback_reason |-> NoReason]

\* fallback, fallback_reason of an accepted result
Fallback(height, target_quality, requires_exact_match, quality_policy) ==
    IF height # NoneInt /\ height < target_quality
    THEN [fallback |-> TRUE,
          fallback_reason |-> "requested=" \o ToString(target_quality)
                                  \o ", actual=" \o ToString(height)]
    ELSE IF ~requires_exact_match /\ quality_policy = "strict"
    THEN [fallback |-> TRUE,
          fallback_reason |-> "exact_target_unavailable, requested="
                                  \o ToString(target_quality)]
    ELSE [fallback |-> FALSE, fallback_reason |-> NoReason]

\* "unknown" if height is None else str(height)
HeightText(height) == IF height = NoneInt THEN "unknown" ELSE ToString(height)

ReasonPrefix(current_client, auth_context, mode_name) ==
    "client=" \o current_client \o ", auth=" \o auth_context \o ", mode=" \o mode_name \o ": "

\* attempt_reasons[:4]
RecentReasons_first_four(reasons) ==
    SubSeq(reasons, 1, IF Len(reasons) > 4 THEN 4 ELSE Len(reasons))

\* attempt_reasons[-4:]
RecentReasons(reasons) ==
    SubSeq(reasons, IF Len(reasons) > 4 THEN Len(reasons) - 3 ELSE 1, Len(reasons))

\* an inner loop that stops one attempt early
NextPosition_skips_last(mode, attempt, plan_length) ==
    IF attempt + 1 < plan_length THEN <<mode, attempt + 1>> ELSE <<mode + 1, 1>>

\* loops that are left for good when the inner one ends
NextPosition_leaves_outer(mode, attempt, plan_length) ==
    IF attempt < plan_length THEN <<mode, attempt + 1>> ELSE <<mode + 2, 1>>

\* the position of the next iteration of the nested loops
NextPosition(mode, attempt, plan_length) ==
    IF attempt < plan_length THEN <<mode, attempt + 1>> ELSE <<mode + 1, 1>>

(***************************************************************************)
(* Requests and backend behaviour the model explores                       *)
(***************************************************************************)

\* the longest explicit --player-client list
MaxClients == 2

\* the longest attempt plan a request may resolve to
MaxPlan == 4

Web == <<"w", "e", "b">>

IosPadded == <<" ", "i", "o", "s", " ">>

Blank == <<" ">>

Safari == <<"s", "a", "f", "a", "r", "i">>

OffPadded == <<" ", "O", "F", "F", " ">>

BestEffort == <<"b", "e", "s", "t", "_", "e", "f", "f", "o", "r", "t">>

Fastest == <<"f", "a", "s", "t", "e", "s", "t">>

Text1080 == <<"1", "0", "8", "0">>

Text600 == <<"6", "0", "0">>

Text480Padded == <<" ", "4", "8", "0", " ">>

Text100 == <<"1", "0", "0">>

Text99999 == <<"9", "9", "9", "9", "9">>

TextHd == <<"7", "2", "0", "p">>

EmptyEnv == [name \in EnvNames |-> NoneStr]

SeqsUpTo(S, n) == UNION {[1..k -> S] : k \in 1..n}

PlayerClientInputs ==
    {NoClients, ClientList(<<Blank>>)}
        \cup {ClientList(list) : list \in SeqsUpTo({Web, IosPadded}, MaxClients)}

AllRequests ==
    [cookies_from_browser : {NoneStr, Safari, OffPadded},
     target_quality : {NoneInt, 1080, 100},
     min_height : {NoneInt},
     quality_policy : {NoneStr, BestEffort, Fastest},
     player_clients : PlayerClientInputs,
     env : {EmptyEnv}]

\* requests whose target quality comes from the legacy argument or from the environment
SourceRequests ==
    [cookies_from_browser : {OffPadded},
     target_quality : {NoneInt, MAX_TARGET_QUALITY + 1},
     min_height : {NoneInt, 600, 100},
     quality_policy : {NoneStr},
     player_clients : {NoClients},
     env : {[EmptyEnv EXCEPT !["YT_TARGET_QUALITY"] = target, !["YT_MIN_HEIGHT"] = minimum] :
               target \in {NoneStr, Text1080, Text100, TextHd},
               minimum \in {NoneStr, Text600, Text99999}}]

\* requests with an explicitly supplied client list that has no entry
EmptyListRequests ==
    [cookies_from_browser : {OffPadded},
     target_quality : {NoneInt},
     min_height : {NoneInt},
     quality_policy : {NoneStr, BestEffort},
     player_clients : {ClientList(<<>>)},
     env : {EmptyEnv}]

\* the plan of a request whose configuration resolves
PlanOf(request) ==
    build_attempt_plan(
        resolve_effective_clients(request.player_clients).value,
        resolve_effective_cookies_browsers(request.cookies_from_browser, request.env))

Requests ==
    {request \in AllRequests \cup SourceRequests \cup EmptyListRequests :
        resolve_effective_clients(request.player_clients).raised
            \/ Len(PlanOf(request)) <= MaxPlan}

VideoMp4 == [stem |-> "out/video", ext |-> ".mp4"]

VideoWebm == [stem |-> "out/video", ext |-> ".webm"]

BackendHeights == {NoneInt, 480, 720, 1080}

NoInfo ==
    [height |-> NoneInt, format_id |-> NoneStr, requested_formats |-> <<>>,
     requested_downloads |-> <<>>, _filename |-> NoPath, filepath |-> NoPath,
     prepared |-> NoPath]

\* ydl.extract_info raises DownloadError(message)
Raises(message) ==
    [raises |-> TRUE, message |-> message, info |-> NoInfo, writes |-> <<>>, probe |-> NoneInt]

\* ydl.extract_info returns info after writing `writes`; ffprobe would report `probe`
Fetched(info, writes, probe) ==
    [raises |-> FALSE, message |-> <<>>, info |-> info, writes |-> writes, probe |-> probe]

FormatNotAvailable ==
    <<"E", "R", "R", "O", "R", ":", " ", "R", "e", "q", "u", "e", "s", "t", "e", "d", " ",
      "f", "o", "r", "m", "a", "t", " ", "i", "s", " ", "n", "o", "t", " ",
      "a", "v", "a", "i", "l", "a", "b", "l", "e">>

UnsupportedUrl ==
    <<"E", "R", "R", "O", "R", ":", " ", "U", "n", "s", "u", "p", "p", "o", "r", "t", "e", "d", " ",
      "U", "R", "L">>

Format22 == <<"2", "2">>

\* the height is the top-level field, or unknown to the metadata and left to ffprobe
PlainResponses ==
    {Fetched([NoInfo EXCEPT !.height = h, !.format_id = Format22, !._filename = VideoMp4],
             <<VideoMp4>>, NoneInt) : h \in BackendHeights}
    \cup {Fetched([NoInfo EXCEPT !._filename = VideoMp4], <<VideoMp4>>, 480)}

\* the height and the format come from the nested per-stream records
NestedResponses ==
    {Fetched([NoInfo EXCEPT
                 !.requested_formats =
                     << [height |-> 720, format_id |-> <<"1", "3", "6">>],
                        [height |-> NoneInt, format_id |-> <<"1", "4", "0">>] >>,
                 !.prepared = VideoWebm],
             <<VideoMp4>>, NoneInt),
     Fetched([NoInfo EXCEPT
                 !.requested_downloads =
                     << [height |-> NoneInt, format_id |-> NoneStr, filepath |-> VideoMp4,
                         info_dict |-> [height |-> 1080, format_id |-> <<"3", "7">>]] >>],
             <<VideoMp4>>, NoneInt)}

\* the metadata names no file that exists: one file was created, or none
UnreportedResponses ==
    {Fetched([NoInfo EXCEPT !.height = 720, !.format_id = Format22], <<VideoMp4>>, NoneInt),
     Fetched([NoInfo EXCEPT !.height = 720, !.format_id = Format22], <<>>, NoneInt)}

\* the backend finds the file of an earlier download in the directory and reports it
\* without writing anything
ReusedResponses ==
    {Fetched([NoInfo EXCEPT !.height = h, !.format_id = Format22, !._filename = VideoMp4],
             <<>>, NoneInt) : h \in {480, 720}}

\* the messages of the download failures the backend raises
ErrorMessages == {FormatNotAvailable, UnsupportedUrl}

BackendResponses ==
    {Raises(message) : message \in ErrorMessages}
        \cup PlainResponses \cup NestedResponses \cup UnreportedResponses

(***************************************************************************)
(* download_youtube_mp4_720p as a state machine                            *)
(***************************************************************************)

VARIABLES
    request,                      \* the arguments of the call and the environment
    pc,                           \* "start", "running", "returned" or "raised"
    effective_cookies_browsers,
    effective_quality_policy,
    effective_target_quality,
    effective_clients,
    quality_modes,
    attempts,
    mode_index,                   \* the loop variables, 1-based as in enumerate(.., start=1)
    attempt_index,
    attempt_reasons,
    last_error,
    reported_paths,               \* what the metadata of the latest result says of its file
    output_dir,                   \* the files of out/, oldest first
    outcome,                      \* the DownloadOutcome returned (pc = "returned")
    raised,                       \* the exception that left the call (pc = "raised")
    invocations,                  \* every ydl.extract_info call made so far, in order
    call,                         \* a call of one helper function on its own: its arguments
    ret                           \* ... and what it returned

vars ==
    <<request, pc, effective_cookies_browsers, effective_quality_policy,
      effective_target_quality, effective_clients, quality_modes, attempts, mode_index,
      attempt_index, attempt_reasons, last_error, reported_paths, output_dir, outcome, raised,
      invocations, call, ret>>

config_vars ==
    <<effective_cookies_browsers, effective_quality_policy, effective_target_quality,
      effective_clients, quality_modes, attempts>>

NoOutcome == <<>>

NoException == <<>>

NoCall == [fn |-> "none"]

NotReturned == [done |-> FALSE, value |-> <<>>]

\* download_youtube_mp4_720p called with no argument in an empty environment
DefaultRequest ==
    [cookies_from_browser |-> NoneStr, target_quality |-> NoneInt, min_height |-> NoneInt,
     quality_policy |-> NoneStr, player_clients |-> NoClients, env |-> EmptyEnv]

\* the locals of download_youtube_mp4_720p before its first statement
LocalsUnset ==
    /\ effective_cookies_browsers = <<>>
    /\ effective_quality_policy = ""
    /\ effective_target_quality = NoneInt
    /\ effective_clients = <<>>
    /\ quality_modes = <<>>
    /\ attempts = <<>>
    /\ mode_index = 1
    /\ attempt_index = 1
    /\ attempt_reasons = <<>>
    /\ last_error = NoneStr
    /\ reported_paths = <<>>
    /\ output_dir = <<>>
    /\ outcome = NoOutcome
    /\ raised = NoException
    /\ invocations = <<>>

Init ==
    /\ request \in Requests
    /\ pc = "start"
    /\ LocalsUnset
    /\ call = NoCall
    /\ ret = NotReturned

\* the configuration errors of the resolvers, in the order the resolvers are called
ConfigErrors(policy, target, clients) ==
    (IF policy.raised THEN <<policy.message>> ELSE <<>>)
    \o (IF target.raised THEN <<target.message>> ELSE <<>>)
    \o (IF clients.raised THEN <<clients.message>> ELSE <<>>)

\* from the entry of the function to the first iteration of the loops
Resolve ==
    /\ pc = "start"
    /\ LET browsers == resolve_effective_cookies_browsers(
                           request.cookies_from_browser, request.env)
           policy == resolve_quality_policy(request.quality_policy, request.env)
           target == resolve_target_quality(
                         request.target_quality, request.min_height, request.env)
           clients == resolve_effective_clients(request.player_clients)
           errors == ConfigErrors(policy, target, clients)
       IN  IF errors # <<>>
           THEN /\ pc' = "raised"
                /\ raised' = [type |-> "SystemExit", message |-> errors[1], cause |-> NoneStr]
                /\ UNCHANGED config_vars
           ELSE /\ pc' = "running"
                /\ effective_cookies_browsers' = browsers
                /\ effective_quality_policy' = policy.value
                /\ effective_target_quality' = target.value
                /\ effective_clients' = clients.value
                /\ quality_modes' = QualityModes(policy.value, target.value)
                /\ attempts' = build_attempt_plan(clients.value, browsers)
                /\ UNCHANGED raised
    /\ UNCHANGED <<request, mode_index, attempt_index, attempt_reasons, last_error,
                   reported_paths, output_dir, outcome, invocations, call, ret>>

\* one ydl.extract_info call, as the log `invocations` records it; height and path are
\* the locals `height` and `output_path` of the iteration (None when the call raised or
\* no file was found), known_paths_before is its snapshot, produced the files the
\* backend call wrote and written all the files written since the snapshot, in order
Invocation(mode, attempt, result, error, height, reason, path, produced, written) ==
    [mode_index |-> mode_index,
     attempt_index |-> attempt_index,
     mode |-> mode.name,
     format_selector |-> mode.selector,
     client |-> attempt.client,
     browser |-> attempt.browser,
     result |-> result,
     error |-> error,
     height |-> height,
     reason |-> reason,
     path |-> path,
     known_paths_before |-> Range(output_dir),
     produced |-> produced,
     written |-> written]

\* a `continue` that moves on without recording the reason
Continue_drops_reason(reason) ==
    LET next == NextPosition(mode_index, attempt_index, Len(attempts))
    IN  /\ attempt_reasons' = attempt_reasons
        /\ mode_index' = next[1]
        /\ attempt_index' = next[2]
        /\ pc' = "running"
        /\ UNCHANGED <<outcome, raised>>

\* `continue`: the reason is recorded and the loops move on
Continue(reason) ==
    LET next == NextPosition(mode_index, attempt_index, Len(attempts))
    IN  /\ attempt_reasons' = Append(attempt_reasons, reason)
        /\ mode_index' = next[1]
        /\ attempt_index' = next[2]
        /\ pc' = "running"
        /\ UNCHANGED <<outcome, raised>>

\* what the except branch computes from the exception alone, per failure of the backend:
\* message = clean_error_message(str(exc)), retryable = is_retryable_download_error(message)
Handled ==
    [error \in ErrorMessages |->
        [message |-> Str(clean_error_message(error)),
         retryable |-> is_retryable_download_error(clean_error_message(error)),
         text |-> Str(error)]]

\* what the try branch reads from the metadata alone, per result of the backend
Inspected ==
    [response \in BackendResponses \cup ReusedResponses |->
        [height |-> extract_selected_height(response.info),
         format_id |-> extract_selected_format_id(response.info)]]

\* the except branch of one iteration
OnDownloadError(mode, attempt, response) ==
    LET reason == ReasonPrefix(client_label(attempt.client), attempt.auth_context, mode.name)
                      \o Handled[response.message].message
        retryable == Handled[response.message].retryable
    IN  /\ last_error' = response.message
        /\ reported_paths' = reported_paths
        /\ output_dir' = output_dir
        /\ invocations' =
               Append(invocations,
                      Invocation(mode, attempt,
                                 IF retryable THEN "retryable_error" ELSE "fatal_error",
                                 response.message, NoneInt, reason, NoPath,
                                 response.writes, response.writes))
        /\ IF retryable
           THEN Continue(reason)
           ELSE /\ attempt_reasons' = Append(attempt_reasons, reason)
                /\ pc' = "raised"
                /\ raised' = [type |-> "DownloadError",
                              message |-> Handled[response.message].text,
                              cause |-> NoneStr]
                /\ UNCHANGED <<mode_index, attempt_index, outcome>>

\* the try branch of one iteration, after ydl.extract_info returned; `writes` are the
\* files written to the output directory since the snapshot, in the order of writing
OnInfo(mode, attempt, response, writes) ==
    LET known_paths_before == Range(output_dir)
        dir == Written(output_dir, writes)
        located == resolve_downloaded_file_path(response.info, dir, known_paths_before)
        extracted == Inspected[response].height
        height == IF extracted # NoneInt THEN extracted ELSE response.probe
        format_id == Inspected[response].format_id
        current_client == client_label(attempt.client)
        gate == QualityGate(mode.requires_exact_match, height, effective_target_quality)
        mismatch == ReasonPrefix(current_client, attempt.auth_context, mode.name)
                        \o "actual_quality=" \o HeightText(height)
                        \o " does_not_match_target=" \o ToString(effective_target_quality)
        above == ReasonPrefix(current_client, attempt.auth_context, mode.name)
                     \o "actual_quality=" \o ToString(height)
                     \o " above_target=" \o ToString(effective_target_quality)
        flag == Fallback(height, effective_target_quality, mode.requires_exact_match,
                         effective_quality_policy)
    IN  /\ last_error' = last_error
        /\ reported_paths' = <<response.info._filename, response.info.filepath>>
                           \o [i \in 1..Len(response.info.requested_downloads) |->
                                  response.info.requested_downloads[i].filepath]
                           \o <<response.info.prepared>>
        /\ IF located.raised
           THEN /\ pc' = "raised"
                /\ raised' = [type |-> "SystemExit", message |-> located.message,
                              cause |-> NoneStr]
                /\ output_dir' = dir
                /\ invocations' =
                       Append(invocations,
                              Invocation(mode, attempt, "path_undetermined", NoneStr, NoneInt,
                                         "", NoPath, response.writes, writes))
                /\ UNCHANGED <<mode_index, attempt_index, attempt_reasons, outcome>>
           ELSE IF gate = "does_not_match_target"
           THEN /\ output_dir' = remove_file_if_exists(dir, located.value)
                /\ invocations' =
                       Append(invocations,
                              Invocation(mode, attempt, "quality_rejected", NoneStr, height,
                                         mismatch, located.value, response.writes, writes))
                /\ Continue(mismatch)
           ELSE IF gate = "above_target"
           THEN /\ output_dir' = remove_file_if_exists(dir, located.value)
                /\ invocations' =
                       Append(invocations,
                              Invocation(mode, attempt, "quality_rejected", NoneStr, height,
                                         above, located.value, response.writes, writes))
                /\ Continue(above)
           ELSE /\ output_dir' = dir
                /\ invocations' =
                       Append(invocations,
                              Invocation(mode, attempt, "accepted", NoneStr, height, "",
                                         located.value, response.writes, writes))
                /\ pc' = "returned"
                /\ outcome' = [path |-> located.value,
                               client |-> current_client,
                               auth_context |-> attempt.auth_context,
                               height |-> height,
                               format_id |-> format_id,
                               target_quality |-> effective_target_quality,
                               quality_policy |-> effective_quality_policy,
                               fallback |-> flag.fallback,
                               fallback_reason |-> flag.fallback_reason]
                /\ UNCHANGED <<mode_index, attempt_index, attempt_reasons, raised>>

\* one iteration of the inner loop: one backend call and what the code does with it
Attempt ==
    /\ pc = "running"
    /\ mode_index <= Len(quality_modes)
    /\ \E response \in BackendResponses :
           IF response.raises
           THEN OnDownloadError(quality_modes[mode_index], attempts[attempt_index], response)
           ELSE OnInfo(quality_modes[mode_index], attempts[attempt_index], response,
                       response.writes)
    /\ UNCHANGED <<request, config_vars, call, ret>>

\* after the loops: every mode and attempt was tried and none was accepted
\* a statement after the loops that gives up after the exact mode when relaxation is
\* not allowed
Exhausted_honours_flag ==
    /\ pc = "running"
    /\ \/ mode_index > Len(quality_modes)
       \/ /\ call.fn = "download_youtube_mp4_720p"
          /\ ~call.allow_strict_relaxation
          /\ effective_quality_policy = "strict"
          /\ mode_index > 1
    /\ LET summary == IF attempt_reasons # <<>>
                      THEN Join("; ", RecentReasons(attempt_reasons))
                      ELSE "no details"
       IN  raised' = [type |-> "SystemExit",
                      message |-> "No compatible format found for requested quality "
                                      \o ToString(effective_target_quality)
                                      \o ". Recent reasons: " \o summary,
                      cause |-> last_error]
    /\ pc' = "raised"
    /\ UNCHANGED <<request, config_vars, mode_index, attempt_index, attempt_reasons,
                   last_error, reported_paths, output_dir, outcome, invocations, call, ret>>

Exhausted ==
    /\ pc = "running"
    /\ mode_index > Len(quality_modes)
    /\ LET summary == IF attempt_reasons # <<>>
                      THEN Join("; ", RecentReasons(attempt_reasons))
                      ELSE "no details"
       IN  raised' = [type |-> "SystemExit",
                      message |-> "No compatible format found for requested quality "
                                      \o ToString(effective_target_quality)
                                      \o ". Recent reasons: " \o summary,
                      cause |-> last_error]
    /\ pc' = "raised"
    /\ UNCHANGED <<request, config_vars, mode_index, attempt_index, attempt_reasons,
                   last_error, reported_paths, output_dir, outcome, invocations, call, ret>>

Next == Resolve \/ Attempt \/ Exhausted

Spec == Init /\ [][Next]_vars

\* calls with one mode or two, a plan of one to four attempts, or a target out of range
TerminationRequests ==
    [cookies_from_browser : {OffPadded, Safari},
     target_quality : {NoneInt, 100},
     min_height : {NoneInt},
     quality_policy : {NoneStr, BestEffort},
     player_clients : {NoClients, ClientList(<<Web, IosPadded>>)},
     env : {EmptyEnv}]

InitTermination ==
    /\ request \in TerminationRequests
    /\ pc = "start"
    /\ LocalsUnset
    /\ call = NoCall
    /\ ret = NotReturned

\* the statements before the loops are executed, every call of the backend returns or
\* raises, and the statement after the loops is executed
Termination ==
    /\ InitTermination
    /\ [][Next]_vars
    /\ <>(pc # "start")
    /\ WF_vars(Attempt)
    /\ WF_vars(Exhausted)

(***************************************************************************)
(* download_youtube_mp4_720p called twice on the same inputs, with         *)
(* allow_strict_relaxation = True and then False                           *)
(***************************************************************************)

RelaxationRequests ==
    [cookies_from_browser : {OffPadded},
     target_quality : {NoneInt},
     min_height : {NoneInt},
     quality_policy : {NoneStr, BestEffort},
     player_clients : {NoClients, ClientList(<<Web, IosPadded>>)},
     env : {EmptyEnv}]

\* the first call: the default of the parameter, and the backend's answers as they come
InitRelaxation ==
    /\ request \in RelaxationRequests
    /\ pc = "start"
    /\ LocalsUnset
    /\ call = [fn |-> "download_youtube_mp4_720p", allow_strict_relaxation |-> TRUE,
               responses |-> <<>>, replayed |-> 0]
    /\ ret = NotReturned

\* what a caller and the backend see of a finished call
Observed ==
    [pc |-> pc, outcome |-> outcome, raised |-> raised, invocations |-> invocations,
     attempt_reasons |-> attempt_reasons, last_error |-> last_error,
     output_dir |-> output_dir]

\* one iteration of the inner loop of the first call
AttemptRelaxationAllowed ==
    /\ pc = "running"
    /\ ~ret.done
    /\ mode_index <= Len(quality_modes)
    /\ \E response \in BackendResponses :
           /\ IF response.raises
              THEN OnDownloadError(quality_modes[mode_index], attempts[attempt_index],
                                   response)
              ELSE OnInfo(quality_modes[mode_index], attempts[attempt_index], response,
                          response.writes)
           /\ call' = [call EXCEPT !.responses = Append(@, response)]
    /\ UNCHANGED <<request, config_vars, ret>>

\* the second call: the same request in the same directory, allow_strict_relaxation=False
CallAgain ==
    /\ pc \in {"returned", "raised"}
    /\ ~ret.done
    /\ ret' = [done |-> TRUE, value |-> Observed]
    /\ call' = [call EXCEPT !.allow_strict_relaxation = FALSE]
    /\ pc' = "start"
    /\ effective_cookies_browsers' = <<>>
    /\ effective_quality_policy' = ""
    /\ effective_target_quality' = NoneInt
    /\ effective_clients' = <<>>
    /\ quality_modes' = <<>>
    /\ attempts' = <<>>
    /\ mode_index' = 1
    /\ attempt_index' = 1
    /\ attempt_reasons' = <<>>
    /\ last_error' = NoneStr
    /\ reported_paths' = <<>>
    /\ output_dir' = <<>>
    /\ outcome' = NoOutcome
    /\ raised' = NoException
    /\ invocations' = <<>>
    /\ UNCHANGED request

\* one iteration of the inner loop of the second call: the backend answers as it did
AttemptRelaxationForbidden ==
    /\ pc = "running"
    /\ ret.done
    /\ mode_index <= Len(quality_modes)
    /\ call.replayed < Len(call.responses)
    /\ LET response == call.responses[call.replayed + 1]
       IN  IF response.raises
           THEN OnDownloadError(quality_modes[mode_index], attempts[attempt_index],
                                response)
           ELSE OnInfo(quality_modes[mode_index], attempts[attempt_index], response,
                       response.writes)
    /\ call' = [call EXCEPT !.replayed = @ + 1]
    /\ UNCHANGED <<request, config_vars, ret>>

NextRelaxation ==
    Resolve \/ AttemptRelaxationAllowed \/ CallAgain \/ AttemptRelaxationForbidden
        \/ Exhausted

SpecRelaxation == InitRelaxation /\ [][NextRelaxation]_vars

(***************************************************************************)
(* build_attempt_plan on its own                                           *)
(***************************************************************************)

\* the longest cookie-browser list handed to build_attempt_plan
MaxBrowsers == 2

Chrome == <<"c", "h", "r", "o", "m", "e">>

Firefox == <<"f", "i", "r", "e", "f", "o", "x">>

Ios == <<"i", "o", "s">>

PlanCalls ==
    [fn : {"build_attempt_plan"},
     clients : {<<>>} \cup SeqsUpTo({NoneStr, Web, Ios}, MaxClients),
     cookie_browsers : {<<>>} \cup SeqsUpTo({Chrome, Safari, Firefox}, MaxBrowsers)]

InitPlan ==
    /\ request = DefaultRequest
    /\ pc = "idle"
    /\ LocalsUnset
    /\ call \in PlanCalls
    /\ ret = NotReturned

CallBuildAttemptPlan ==
    /\ call.fn = "build_attempt_plan"
    /\ ~ret.done
    /\ ret' = [done |-> TRUE, value |-> build_attempt_plan(call.clients, call.cookie_browsers)]
    /\ UNCHANGED <<request, pc, config_vars, mode_index, attempt_index, attempt_reasons,
                   last_error, reported_paths, output_dir, outcome, raised, invocations, call>>

NextPlan == CallBuildAttemptPlan

SpecPlan == InitPlan /\ [][NextPlan]_vars

(***************************************************************************)
(* is_quality_acceptable on its own                                        *)
(***************************************************************************)

\* the heights and targets of the calls: the bounds of the range, values inside it,
\* and targets outside it
CallHeights == {NoneInt, MIN_TARGET_QUALITY, 360, 720, 1080, MAX_TARGET_QUALITY}

CallTargets ==
    {100, MIN_TARGET_QUALITY, 720, 1080, MAX_TARGET_QUALITY, MAX_TARGET_QUALITY + 1}

AcceptableCalls ==
    [fn : {"is_quality_acceptable"},
     height : CallHeights,
     min_height : CallTargets,
     quality_policy : {"strict", "best_effort"}]

\* a helper function is called on its own: download_youtube_mp4_720p is not running
Idle ==
    /\ request = DefaultRequest
    /\ pc = "idle"
    /\ LocalsUnset

\* what a call of a helper function leaves alone
download_vars ==
    <<request, pc, config_vars, mode_index, attempt_index, attempt_reasons, last_error,
      reported_paths,
      output_dir, outcome, raised, invocations>>

InitAcceptable == Idle /\ call \in AcceptableCalls /\ ret = NotReturned

CallIsQualityAcceptable ==
    /\ call.fn = "is_quality_acceptable"
    /\ ~ret.done
    /\ ret' = [done |-> TRUE,
               value |-> is_quality_acceptable(call.height, call.min_height,
                                               call.quality_policy)]
    /\ UNCHANGED <<download_vars, call>>

NextAcceptable == CallIsQualityAcceptable

SpecAcceptable == InitAcceptable /\ [][NextAcceptable]_vars

(***************************************************************************)
(* resolve_quality_policy and resolve_target_quality on their own          *)
(***************************************************************************)

StrictPadded == <<" ", "S", "t", "r", "i", "c", "t", " ">>

BestEffortUpper == <<"B", "E", "S", "T", "_", "E", "F", "F", "O", "R", "T">>

\* the environments of the resolver calls
ResolverEnvs ==
    {[EmptyEnv EXCEPT !["YT_TARGET_QUALITY"] = target,
                      !["YT_MIN_HEIGHT"] = minimum,
                      !["YT_QUALITY_POLICY"] = policy] :
        target \in {NoneStr, Blank, Text1080, Text480Padded, Text100, TextHd},
        minimum \in {NoneStr, <<>>, Text600, Text99999},
        policy \in {NoneStr, <<>>, BestEffortUpper, StrictPadded, Fastest}}

\* the arguments download_youtube_mp4_720p hands to the two resolvers, and the environment
ResolverCalls ==
    [fn : {"resolvers"},
     target_quality : {NoneInt, 480, 100},
     min_height : {NoneInt, 600, MAX_TARGET_QUALITY + 1},
     quality_policy : {NoneStr, <<>>, Blank, BestEffort, StrictPadded, Fastest},
     env : ResolverEnvs]

InitResolver ==
    /\ Idle
    /\ call \in ResolverCalls
    /\ ret = [policy |-> NotReturned, target |-> NotReturned]

CallResolveQualityPolicy ==
    /\ call.fn = "resolvers"
    /\ ~ret.policy.done
    /\ ret' = [ret EXCEPT !.policy =
                   [done |-> TRUE,
                    value |-> resolve_quality_policy(call.quality_policy, call.env)]]
    /\ UNCHANGED <<download_vars, call>>

CallResolveTargetQuality ==
    /\ call.fn = "resolvers"
    /\ ~ret.target.done
    /\ ret' = [ret EXCEPT !.target =
                   [done |-> TRUE,
                    value |-> resolve_target_quality(call.target_quality, call.min_height,
                                                     call.env)]]
    /\ UNCHANGED <<download_vars, call>>

NextResolver == CallResolveQualityPolicy \/ CallResolveTargetQuality

SpecResolver == InitResolver /\ [][NextResolver]_vars

(***************************************************************************)
(* resolve_effective_clients on its own                                    *)
(***************************************************************************)

WebPadded == <<" ", "w", "e", "b", " ">>

Tab == <<"\t">>

\* player_clients: None, the empty list, and the lists of up to MaxClients entries
ClientCalls ==
    [fn : {"resolve_effective_clients"},
     player_clients :
         {NoClients, ClientList(<<>>)}
             \cup {ClientList(list) :
                     list \in SeqsUpTo({Web, WebPadded, Ios, IosPadded, Blank, Tab, <<>>},
                                       MaxClients)}]

InitClients == Idle /\ call \in ClientCalls /\ ret = NotReturned

CallResolveEffectiveClients ==
    /\ call.fn = "resolve_effective_clients"
    /\ ~ret.done
    /\ ret' = [done |-> TRUE, value |-> resolve_effective_clients(call.player_clients)]
    /\ UNCHANGED <<download_vars, call>>

NextClients == CallResolveEffectiveClients

SpecClients == InitClients /\ [][NextClients]_vars

(***************************************************************************)
(* resolve_effective_cookies_browsers on its own                           *)
(***************************************************************************)

SafariPadded == <<" ", "s", "a", "f", "a", "r", "i", " ">>

FirefoxUpper == <<"F", "i", "r", "e", "f", "o", "x">>

Edge == <<"e", "d", "g", "e">>

NoneWord == <<"n", "o", "n", "e">>

FalseMixed == <<"F", "a", "l", "s", "e">>

\* --cookies-from-browser (None when omitted) and YT_COOKIES_FROM_BROWSER (None when unset)
CookieCalls ==
    [fn : {"resolve_effective_cookies_browsers"},
     cli_value : {NoneStr, <<>>, Blank, Safari, SafariPadded, Chrome, FirefoxUpper, Edge,
                  NoneWord, OffPadded, FalseMixed},
     env : {[EmptyEnv EXCEPT !["YT_COOKIES_FROM_BROWSER"] = value] :
               value \in {NoneStr, <<>>, Blank, Firefox, SafariPadded, Chrome, FirefoxUpper,
                          Edge, NoneWord, OffPadded}}]

InitCookies == Idle /\ call \in CookieCalls /\ ret = NotReturned

CallResolveEffectiveCookiesBrowsers ==
    /\ call.fn = "resolve_effective_cookies_browsers"
    /\ ~ret.done
    /\ ret' = [done |-> TRUE,
               value |-> resolve_effective_cookies_browsers(call.cli_value, call.env)]
    /\ UNCHANGED <<download_vars, call>>

NextCookies == CallResolveEffectiveCookiesBrowsers

SpecCookies == InitCookies /\ [][NextCookies]_vars

(***************************************************************************)
(* download_youtube_mp4_720p in an output directory that other processes   *)
(* write to and that holds files of earlier runs                           *)
(***************************************************************************)

\* a file of an unrelated process
Other == [stem |-> "out/other", ext |-> ".mp4"]

SharedRequests ==
    [cookies_from_browser : {OffPadded},
     target_quality : {NoneInt},
     min_height : {NoneInt},
     quality_policy : {NoneStr, BestEffort},
     player_clients : {NoClients, ClientList(<<Web, IosPadded>>)},
     env : {EmptyEnv}]

\* the directory when the call starts: empty, or with the file of an earlier download,
\* or with a file of another process
InitShared ==
    /\ request \in SharedRequests
    /\ pc = "start"
    /\ effective_cookies_browsers = <<>>
    /\ effective_quality_policy = ""
    /\ effective_target_quality = NoneInt
    /\ effective_clients = <<>>
    /\ quality_modes = <<>>
    /\ attempts = <<>>
    /\ mode_index = 1
    /\ attempt_index = 1
    /\ attempt_reasons = <<>>
    /\ last_error = NoneStr
    /\ reported_paths = <<>>
    /\ output_dir \in {<<>>, <<VideoMp4>>, <<Other>>}
    /\ outcome = NoOutcome
    /\ raised = NoException
    /\ invocations = <<>>
    /\ call = NoCall
    /\ ret = NotReturned

\* the files written between the snapshot and the search for the artifact, in the order
\* of writing: those of the backend call alone, or with one of another process before
\* or after them
SharedWrites(writes) == {writes, <<Other>> \o writes, writes \o <<Other>>}

\* one iteration of the inner loop while another process may write to the directory
AttemptShared ==
    /\ pc = "running"
    /\ mode_index <= Len(quality_modes)
    /\ \E response \in BackendResponses \cup ReusedResponses :
           IF response.raises
           THEN OnDownloadError(quality_modes[mode_index], attempts[attempt_index], response)
           ELSE \E writes \in SharedWrites(response.writes) :
                    OnInfo(quality_modes[mode_index], attempts[attempt_index], response,
                           writes)
    /\ UNCHANGED <<request, config_vars, call, ret>>

NextShared == Resolve \/ AttemptShared \/ Exhausted

SpecShared == InitShared /\ [][NextShared]_vars

(***************************************************************************)
(* resolve_downloaded_file_path on its own                                 *)
(***************************************************************************)

MaxFiles == 3

\* a file an earlier run left in the directory
Earlier == [stem |-> "out/earlier", ext |-> ".mp4"]

LocateFiles == {VideoMp4, VideoWebm, Other, Earlier}

\* the output directory, oldest file first
LocateDirs ==
    {dir \in UNION {[1..n -> LocateFiles] : n \in 0..MaxFiles} :
        \A i, j \in 1..Len(dir) : dir[i] = dir[j] => i = j}

\* the metadata names its paths under _filename, under filepath, in one requested
\* download and through prepare_filename, or leaves any of them out
LocateInfos ==
    {[NoInfo EXCEPT !._filename = named, !.filepath = path,
                    !.requested_downloads = downloads, !.prepared = prepared] :
        named \in {NoPath, VideoWebm},
        path \in {NoPath, VideoMp4},
        downloads \in {<<>>,
                       << [height |-> NoneInt, format_id |-> NoneStr, filepath |-> Other,
                           info_dict |-> [height |-> NoneInt, format_id |-> NoneStr]] >>},
        prepared \in {NoPath, VideoWebm, VideoMp4}}

\* the snapshot holds files that are still in the directory
LocateCalls ==
    {[fn |-> "resolve_downloaded_file_path", info |-> info, dir |-> dir,
      known_paths_before |-> known] :
        info \in LocateInfos, dir \in LocateDirs, known \in SUBSET LocateFiles}

InitLocate ==
    /\ Idle
    /\ call \in {c \in LocateCalls : c.known_paths_before \subseteq Range(c.dir)}
    /\ ret = NotReturned

CallResolveDownloadedFilePath ==
    /\ call.fn = "resolve_downloaded_file_path"
    /\ ~ret.done
    /\ ret' = [done |-> TRUE,
               value |-> resolve_downloaded_file_path(call.info, call.dir,
                                                      call.known_paths_before)]
    /\ UNCHANGED <<download_vars, call>>

NextLocate == CallResolveDownloadedFilePath

SpecLocate == InitLocate /\ [][NextLocate]_vars

(***************************************************************************)
(* The except branch of the attempt loop on its own                        *)
(***************************************************************************)

\* failure texts that hold a marker in lower case, in upper case or capitalised
MarkerBodies ==
    { <<"r", "e", "q", "u", "e", "s", "t", "e", "d", " ", "f", "o", "r", "m", "a", "t",
        " ", "i", "s", " ", "n", "o", "t", " ", "a", "v", "a", "i", "l", "a", "b", "l",
        "e">>,
      <<"R", "E", "Q", "U", "E", "S", "T", "E", "D", " ", "F", "O", "R", "M", "A", "T",
        " ", "I", "S", " ", "N", "O", "T", " ", "A", "V", "A", "I", "L", "A", "B", "L",
        "E">>,
      <<"R", "e", "q", "u", "e", "s", "t", "e", "d", " ", "f", "o", "r", "m", "a", "t",
        " ", "i", "s", " ", "n", "o", "t", " ", "a", "v", "a", "i", "l", "a", "b", "l",
        "e">>,
      <<"o", "n", "l", "y", " ", "i", "m", "a", "g", "e", "s", " ", "a", "r", "e", " ",
        "a", "v", "a", "i", "l", "a", "b", "l", "e">>,
      <<"O", "N", "L", "Y", " ", "I", "M", "A", "G", "E", "S", " ", "A", "R", "E", " ",
        "A", "V", "A", "I", "L", "A", "B", "L", "E">>,
      <<"O", "n", "l", "y", " ", "i", "m", "a", "g", "e", "s", " ", "a", "r", "e", " ",
        "a", "v", "a", "i", "l", "a", "b", "l", "e">>,
      <<"c", "h", "a", "l", "l", "e", "n", "g", "e", " ", "s", "o", "l", "v", "i", "n",
        "g", " ", "f", "a", "i", "l", "e", "d">>,
      <<"C", "H", "A", "L", "L", "E", "N", "G", "E", " ", "S", "O", "L", "V", "I", "N",
        "G", " ", "F", "A", "I", "L", "E", "D">>,
      <<"C", "h", "a", "l", "l", "e", "n", "g", "e", " ", "s", "o", "l", "v", "i", "n",
        "g", " ", "f", "a", "i", "l", "e", "d">>,
      <<"t", "h", "i", "s", " ", "v", "i", "d", "e", "o", " ", "i", "s", " ", "d", "r",
        "m", " ", "p", "r", "o", "t", "e", "c", "t", "e", "d">>,
      <<"T", "H", "I", "S", " ", "V", "I", "D", "E", "O", " ", "I", "S", " ", "D", "R",
        "M", " ", "P", "R", "O", "T", "E", "C", "T", "E", "D">>,
      <<"T", "h", "i", "s", " ", "v", "i", "d", "e", "o", " ", "i", "s", " ", "d", "r",
        "m", " ", "p", "r", "o", "t", "e", "c", "t", "e", "d">>,
      <<"n", "o", " ", "v", "i", "d", "e", "o", " ", "f", "o", "r", "m", "a", "t", "s",
        " ", "f", "o", "u", "n", "d">>,
      <<"N", "O", " ", "V", "I", "D", "E", "O", " ", "F", "O", "R", "M", "A", "T", "S",
        " ", "F", "O", "U", "N", "D">>,
      <<"N", "o", " ", "v", "i", "d", "e", "o", " ", "f", "o", "r", "m", "a", "t", "s",
        " ", "f", "o", "u", "n", "d">>,
      <<"h", "t", "t", "p", " ", "e", "r", "r", "o", "r", " ", "4", "0", "3">>,
      <<"H", "T", "T", "P", " ", "E", "R", "R", "O", "R", " ", "4", "0", "3">>,
      <<"H", "T", "T", "P", " ", "E", "r", "r", "o", "r", " ", "4", "0", "3">>,
      <<"c", "o", "o", "k", "i", "e", "s", "f", "r", "o", "m", "b", "r", "o", "w", "s",
        "e", "r">>,
      <<"C", "O", "O", "K", "I", "E", "S", "F", "R", "O", "M", "B", "R", "O", "W", "S",
        "E", "R">>,
      <<"C", "o", "o", "k", "i", "e", "s", "f", "r", "o", "m", "b", "r", "o", "w", "s",
        "e", "r">>,
      <<"c", "o", "o", "k", "i", "e">>,
      <<"C", "O", "O", "K", "I", "E">>,
      <<"C", "o", "o", "k", "i", "e">> }

\* failure texts that hold no marker: markers cut short or misspelt, other failures
OtherBodies ==
    { <<"r", "e", "q", "u", "e", "s", "t", "e", "d", " ", "f", "o", "r", "m", "a", "t",
        " ", "i", "s", " ", "n", "o", "t", " ", "a", "v", "a", "i", "l", "a", "b", "l">>,
      <<"o", "n", "l", "y", " ", "i", "m", "a", "g", "e", "s", " ", "a", "r", "e", " ",
        "a", "v", "a", "i", "l", "i", "b", "l", "e">>,
      <<"c", "h", "a", "l", "l", "e", "n", "g", "e", " ", "s", "o", "l", "v", "i", "n",
        "g">>,
      <<"t", "h", "i", "s", " ", "v", "i", "d", "e", "o", " ", "i", "s", " ", "p", "r",
        "o", "t", "e", "c", "t", "e", "d">>,
      <<"d", "r", "m", " ", "p", "r", "o", "t", "e", "c", "t", "e", "d">>,
      <<"n", "o", " ", "v", "i", "d", "e", "o", " ", "f", "o", "r", "m", "a", "t", " ",
        "f", "o", "u", "n", "d">>,
      <<"h", "t", "t", "p", " ", "e", "r", "r", "o", "r", " ", "4", "0", "4">>,
      <<"h", "t", "t", "p", " ", "e", "r", "r", "o", "r", " ", "4", "0", " ", "3">>,
      <<"c", "o", "o", "k", "i">>,
      <<"U", "n", "s", "u", "p", "p", "o", "r", "t", "e", "d", " ", "U", "R", "L">>,
      <<"V", "i", "d", "e", "o", " ", "u", "n", "a", "v", "a", "i", "l", "a", "b", "l",
        "e">>,
      <<"S", "i", "g", "n", " ", "i", "n", " ", "t", "o", " ", "c", "o", "n", "f", "i",
        "r", "m", " ", "y", "o", "u", "r", " ", "a", "g", "e">>,
      <<>>,
      <<"H", "T", "T", "P", " ", "E", "r", "r", "o", "r", " ", "4", "2", "9">>,
      <<"f", "o", "r", "m", "a", "t", " ", "i", "s", " ", "n", "o", "t", " ", "a", "v",
        "a", "i", "l", "a", "b", "l", "e">>,
      <<"4", "0", "3">> }

\* what yt-dlp puts before the text of a failure
MessagePrefixes ==
    { <<>>,
      <<"E", "R", "R", "O", "R", ":", " ">>,
      <<" ", "E", "R", "R", "O", "R", ":", " ", "[", "y", "o", "u", "t", "u", "b", "e",
        "]", " ", "a", "b", "c", ":", " ">> }

\* what may follow the text of a failure
MessageSuffixes ==
    { <<>>,
      <<".", " ", "R", "e", "t", "r", "y", " ", "l", "a", "t", "e", "r", "\n">> }

\* str(exc) of a DownloadError: a text between a prefix and a suffix
FailureCalls ==
    [fn : {"is_retryable_download_error"},
     prefix : MessagePrefixes,
     body : MarkerBodies \cup OtherBodies,
     suffix : MessageSuffixes]

InitFailure == Idle /\ call \in FailureCalls /\ ret = NotReturned

\* except DownloadError as exc: the message is cleaned and classified, and the loop
\* continues or the exception is raised again
CallIsRetryableDownloadError ==
    /\ call.fn = "is_retryable_download_error"
    /\ ~ret.done
    /\ LET message == clean_error_message(call.prefix \o call.body \o call.suffix)
           retryable == is_retryable_download_error(message)
       IN  ret' = [done |-> TRUE,
                   value |-> [message |-> message,
                              retryable |-> retryable,
                              next |-> IF retryable THEN "continue" ELSE "raise"]]
    /\ UNCHANGED <<download_vars, call>>

NextFailure == CallIsRetryableDownloadError

SpecFailure == InitFailure /\ [][NextFailure]_vars

(***************************************************************************)
(* Properties                                                              *)
(***************************************************************************)

\* the configuration resolved: the loops were entered
Resolved == pc \in {"running", "returned"} \/ (pc = "raised" /\ invocations # <<>>)

\* the number of (mode, attempt) combinations
Combinations == Len(quality_modes) * Len(attempts)

\* the mode index and the attempt index of the i-th combination in lexicographic order
ModeOf(i) == ((i - 1) \div Len(attempts)) + 1

AttemptOf(i) == ((i - 1) % Len(attempts)) + 1

\* the message of a download failure contains a retryable marker, case-insensitively
MatchesRetryableMarker(message) ==
    LET lowered == lower(clean_error_message(message))
    IN  \E marker \in retryable_markers : contains(lowered, marker)

\* the backend's failures that match a marker, and those that match none
MarkedMessages == {message \in ErrorMessages : MatchesRetryableMarker(message)}

UnmarkedMessages == ErrorMessages \ MarkedMessages

RaisedDownloadFailure(i) == invocations[i].error # NoneStr

AcceptedMode == invocations[Len(invocations)].mode

\* C1: the backend is invoked in lexicographic order of (mode index, attempt index),
\* modes in sequencer order outside and the plan in planner order inside: the i-th
\* invocation is the i-th combination, with that mode's selector and that attempt's
\* client and cookie browser; no combination is invoked twice, and an accepted
\* result is the last invocation.
C1_InvocationOrder ==
    /\ Len(invocations) > 0 => Len(invocations) <= Combinations
    /\ \A i \in 1..Len(invocations) :
           /\ invocations[i].mode_index = ModeOf(i)
           /\ invocations[i].attempt_index = AttemptOf(i)
           /\ invocations[i].format_selector = quality_modes[ModeOf(i)].selector
           /\ invocations[i].client = attempts[AttemptOf(i)].client
           /\ invocations[i].browser = attempts[AttemptOf(i)].browser
           /\ invocations[i].result = "accepted" => i = Len(invocations)
    /\ \A i, j \in 1..Len(invocations) :
           i < j =>
               \/ invocations[i].mode_index < invocations[j].mode_index
               \/ /\ invocations[i].mode_index = invocations[j].mode_index
                  /\ invocations[i].attempt_index < invocations[j].attempt_index

\* a result accepted in the second mode, after the whole plan failed in the first
C1_Witness ==
    /\ pc = "returned"
    /\ Len(attempts) = 4
    /\ Len(invocations) = 6

\* the plan the claim describes, entry by entry
ExpectedPlanEntry(clients, cookie_browsers, k) ==
    IF k <= Len(clients)
    THEN [client |-> clients[k], auth_context |-> "none", browser |-> NoneStr]
    ELSE LET b == cookie_browsers[((k - Len(clients) - 1) \div Len(clients)) + 1]
         IN  [client |-> clients[((k - 1) % Len(clients)) + 1],
              auth_context |-> "cookies:" \o Str(b),
              browser |-> b]

\* C2: build_attempt_plan(C, B) is one no-auth entry per client in the order of C,
\* then for each browser of B in order one cookies entry per client in the order of
\* C; its length is |C| + |C|*|B|, and for B = [] every entry is a no-auth entry.
C2_AttemptPlanOrder ==
    ret.done =>
        /\ Len(ret.value) = Len(call.clients) + Len(call.clients) * Len(call.cookie_browsers)
        /\ \A k \in 1..Len(ret.value) :
               ret.value[k] = ExpectedPlanEntry(call.clients, call.cookie_browsers, k)
        /\ call.cookie_browsers = <<>> =>
               /\ Len(ret.value) = Len(call.clients)
               /\ \A k \in 1..Len(ret.value) : ret.value[k].auth_context = "none"

\* two clients and two browsers: the six entries of the tested order
C2_Witness ==
    /\ ret.done
    /\ call.clients = <<Web, Ios>>
    /\ call.cookie_browsers = <<Chrome, Firefox>>
    /\ Len(ret.value) = 6
    /\ ret.value[4] = [client |-> Ios, auth_context |-> "cookies:chrome", browser |-> Chrome]

\* C3: under the strict policy the mode sequence is exact_target (exact match
\* required) then best_below_or_equal_target (not required); under best_effort it
\* is best_below_or_equal_target alone.
C3_QualityModeSequence ==
    Resolved =>
        /\ effective_quality_policy \in {"strict", "best_effort"}
        /\ effective_quality_policy = "strict" =>
               /\ Len(quality_modes) = 2
               /\ quality_modes[1].name = "exact_target"
               /\ quality_modes[1].requires_exact_match
               /\ quality_modes[2].name = "best_below_or_equal_target"
               /\ ~quality_modes[2].requires_exact_match
        /\ effective_quality_policy = "best_effort" =>
               /\ Len(quality_modes) = 1
               /\ quality_modes[1].name = "best_below_or_equal_target"
               /\ ~quality_modes[1].requires_exact_match

\* a best-effort request in its only mode
C3_Witness ==
    /\ pc = "running"
    /\ effective_quality_policy = "best_effort"
    /\ Len(invocations) = 1
    /\ invocations[1].mode = "best_below_or_equal_target"

\* C4: a download failure that matches no retryable marker is the last backend
\* invocation of the request: the call has raised that very error.
C4_FatalErrorAborts ==
    \A i \in 1..Len(invocations) :
        (RaisedDownloadFailure(i) /\ invocations[i].error \in UnmarkedMessages) =>
            /\ i = Len(invocations)
            /\ pc = "raised"
            /\ raised.type = "DownloadError"
            /\ raised.message = Str(invocations[i].error)

\* a fatal failure on the second attempt, with combinations left untried
C4_Witness ==
    /\ pc = "raised"
    /\ raised.type = "DownloadError"
    /\ Len(invocations) = 2
    /\ Combinations = 8

\* C5: a download failure that matches a retryable marker is absorbed: while
\* combinations remain, the search is at (or has already invoked) the next one, the
\* next attempt of the mode or the first attempt of the next mode; only after the
\* last combination does the call raise, and then with the exhaustion error.
C5_RetryableErrorAbsorbed ==
    \A i \in 1..Len(invocations) :
        (RaisedDownloadFailure(i) /\ invocations[i].error \in MarkedMessages) =>
            IF i < Len(invocations)
            THEN /\ invocations[i + 1].mode_index = ModeOf(i + 1)
                 /\ invocations[i + 1].attempt_index = AttemptOf(i + 1)
            ELSE IF i < Combinations
            THEN /\ pc = "running"
                 /\ mode_index = ModeOf(i + 1)
                 /\ attempt_index = AttemptOf(i + 1)
            ELSE \/ pc = "running" /\ mode_index = Len(quality_modes) + 1
                 \/ pc = "raised" /\ raised.type = "SystemExit"

\* a retryable failure on the last attempt of the first mode, followed by the
\* first attempt of the second mode
C5_Witness ==
    /\ Len(attempts) = 2
    /\ Len(invocations) >= 3
    /\ RaisedDownloadFailure(2)
    /\ invocations[2].error \in MarkedMessages
    /\ invocations[3].mode_index = 2
    /\ invocations[3].attempt_index = 1

\* C6: a returned outcome never has a known height above the requested target.
C6_NeverAboveTarget ==
    pc = "returned" =>
        outcome.height = NoneInt \/ outcome.height <= effective_target_quality

\* an outcome returned after the relaxed mode rejected a result above the target
C6_Witness ==
    /\ pc = "returned"
    /\ \E i \in 1..Len(invocations) :
           /\ invocations[i].result = "quality_rejected"
           /\ invocations[i].mode = "best_below_or_equal_target"

\* C7: under the strict policy a returned outcome has exactly the target height.
C7_StrictReturnsTargetHeight ==
    (pc = "returned" /\ effective_quality_policy = "strict") =>
        outcome.height = effective_target_quality

\* C8: an accepted outcome has fallback = true exactly when its height is known and
\* below the target, or it was accepted in the relaxed mode under the strict policy.
C8_FallbackFlag ==
    pc = "returned" =>
        (outcome.fallback <=>
            \/ outcome.height # NoneInt /\ outcome.height < effective_target_quality
            \/ /\ AcceptedMode = "best_below_or_equal_target"
               /\ effective_quality_policy = "strict")

\* a fallback that the height does not explain: the relaxed mode under strict
C8_Witness ==
    /\ pc = "returned"
    /\ outcome.fallback
    /\ outcome.height = effective_target_quality

\* C9: an outcome flagged as a fallback has an achieved height different from the
\* target.
C9_FallbackMissesTarget ==
    (pc = "returned" /\ outcome.fallback) => outcome.height # effective_target_quality

\* every combination was invoked and none was accepted
AllAttemptsFailed ==
    /\ Resolved
    /\ Len(invocations) = Combinations
    /\ \A i \in 1..Len(invocations) :
           invocations[i].result \in {"retryable_error", "quality_rejected"}

\* the reasons of the last (at most four) invocations, oldest first
ExpectedRecentReasons ==
    LET k == IF Combinations > 4 THEN 4 ELSE Combinations
    IN  [j \in 1..k |-> invocations[Combinations - k + j].reason]

ExhaustionMessage ==
    "No compatible format found for requested quality "
        \o ToString(effective_target_quality)
        \o ". Recent reasons: " \o Join("; ", ExpectedRecentReasons)

\* C10: when every attempt of every mode ended in a retryable error or a quality
\* rejection, the call raises the exhaustion error after exactly |modes| * |plan|
\* invocations, and its message lists the reasons of the last (at most four)
\* attempts, oldest first; the exhaustion error is raised in no other case.
C10_ExhaustionSummary ==
    /\ AllAttemptsFailed =>
           \/ pc = "running" /\ ENABLED Exhausted
           \/ /\ pc = "raised"
              /\ raised.type = "SystemExit"
              /\ raised.message = ExhaustionMessage
    /\ (/\ pc = "raised"
        /\ Resolved
        /\ raised.type = "SystemExit"
        /\ invocations[Len(invocations)].result # "path_undetermined") => AllAttemptsFailed
    /\ (Resolved /\ pc = "running" /\ mode_index > Len(quality_modes)) => AllAttemptsFailed

\* exhaustion after more than four failed attempts
C10_Witness ==
    /\ pc = "raised"
    /\ AllAttemptsFailed
    /\ Combinations = 8
    /\ invocations[8].result = "quality_rejected"
    /\ invocations[5].result = "retryable_error"

\* the scenario of C11: target 720 under strict, one client, no cookie browser, the only
\* exact_target attempt failed with the retryable "format is not available" error and
\* the first best_below_or_equal_target attempt came back with height 480
StrictRelaxedScenario ==
    /\ Resolved
    /\ effective_target_quality = 720
    /\ effective_quality_policy = "strict"
    /\ Len(effective_clients) = 1
    /\ effective_cookies_browsers = <<>>
    /\ Len(invocations) >= 2
    /\ invocations[1].mode = "exact_target"
    /\ invocations[1].error = FormatNotAvailable
    /\ invocations[1].error \in MarkedMessages
    /\ invocations[2].mode = "best_below_or_equal_target"
    /\ invocations[2].error = NoneStr
    /\ invocations[2].height = 480

C12_ExactModeOutcome ==
    (pc = "returned" /\ AcceptedMode = "exact_target") =>
        /\ outcome.height = effective_target_quality
        /\ outcome.target_quality = effective_target_quality
        /\ ~outcome.fallback
        /\ outcome.fallback_reason = NoReason

\* accepted in exact_target by attempt 2: client auto with the cookies of the first browser
C12_Witness ==
    /\ pc = "returned"
    /\ AcceptedMode = "exact_target"
    /\ Len(invocations) = 2
    /\ invocations[2].attempt_index = 2
    /\ invocations[2].client = NoneStr
    /\ invocations[2].browser = effective_cookies_browsers[1]
    /\ outcome.client = "auto"
    /\ outcome.auth_context = "cookies:chrome"

\* the target of a call lies in the supported range
TargetInRange(target) == target >= MIN_TARGET_QUALITY /\ target <= MAX_TARGET_QUALITY

\* C13: for a target in the supported range is_quality_acceptable(height, target, policy)
\* is true under strict iff the height is known and equals the target, true under
\* best_effort for a known height iff the height is at most the target, and for an
\* unknown height true only under best_effort.
C13_QualityAcceptable ==
    (call.fn = "is_quality_acceptable" /\ ret.done /\ TargetInRange(call.min_height)) =>
        /\ ~ret.value.raised
        /\ call.quality_policy = "strict" =>
               (ret.value.value <=>
                    (call.height # NoneInt /\ call.height = call.min_height))
        /\ (call.quality_policy = "best_effort" /\ call.height # NoneInt) =>
               (ret.value.value <=> call.height <= call.min_height)
        /\ call.height = NoneInt =>
               (ret.value.value <=> call.quality_policy = "best_effort")

\* strict turned down a known height below the target
C13_Witness ==
    /\ call.fn = "is_quality_acceptable"
    /\ ret.done
    /\ call.quality_policy = "strict"
    /\ call.height = 360
    /\ call.min_height = 720
    /\ ~ret.value.raised
    /\ ~ret.value.value

\* a textual source is present: set and not blank
Present(text) == text # NoneStr /\ \E i \in 1..Len(text) : text[i] \notin Whitespace

\* the integer a textual source of the inputs denotes; NoneInt when it denotes none
TextValue(text) ==
    CASE text = Text1080 -> 1080
      [] text = Text600 -> 600
      [] text = Text480Padded -> 480
      [] text = Text100 -> 100
      [] text = Text99999 -> 99999
      [] OTHER -> NoneInt

\* the first source of the target quality that is present, in the order CLI target,
\* legacy CLI min-height, YT_TARGET_QUALITY, YT_MIN_HEIGHT, default: its name and value
TargetSource(cli_value, min_height, env) ==
    IF cli_value # NoneInt THEN [name |-> "target_quality", value |-> cli_value]
    ELSE IF min_height # NoneInt THEN [name |-> "min_height", value |-> min_height]
    ELSE IF Present(env["YT_TARGET_QUALITY"])
    THEN [name |-> "YT_TARGET_QUALITY", value |-> TextValue(env["YT_TARGET_QUALITY"])]
    ELSE IF Present(env["YT_MIN_HEIGHT"])
    THEN [name |-> "YT_MIN_HEIGHT", value |-> TextValue(env["YT_MIN_HEIGHT"])]
    ELSE [name |-> "default", value |-> 720]

\* C14: resolve_target_quality takes the first source that is present, in the order CLI
\* target, legacy CLI min-height, YT_TARGET_QUALITY, YT_MIN_HEIGHT, built-in default
\* 720: it returns that source's value when the value is an integer in range and raises
\* otherwise, so an explicit CLI value wins whatever the environment holds.
C14_TargetPrecedence ==
    (call.fn = "resolvers" /\ ret.target.done) =>
        LET source == TargetSource(call.target_quality, call.min_height, call.env)
            result == ret.target.value
        IN  /\ TargetInRange(source.value) =>
                   (~result.raised /\ result.value = source.value)
            /\ ~TargetInRange(source.value) => result.raised
            /\ (call.target_quality # NoneInt /\ ~result.raised) =>
                   result.value = call.target_quality

\* the CLI value 480 won over YT_TARGET_QUALITY=1080
C14_Witness ==
    /\ call.fn = "resolvers"
    /\ ret.target.done
    /\ call.target_quality = 480
    /\ call.env["YT_TARGET_QUALITY"] = Text1080
    /\ ~ret.target.value.raised
    /\ ret.target.value.value = 480

\* C15: a resolved target quality always lies in [144, 4320]; when the source the
\* resolver reads is out of range or not an integer the call fails with SystemExit
\* before anything else happens, so the backend is never invoked with a target
\* outside the bounds.
C15_TargetInBounds ==
    LET source == TargetSource(request.target_quality, request.min_height, request.env)
    IN  /\ Resolved =>
               /\ TargetInRange(effective_target_quality)
               /\ effective_target_quality = source.value
        /\ invocations # <<>> => TargetInRange(source.value)
        /\ ~TargetInRange(source.value) =>
               /\ pc \in {"start", "raised"}
               /\ invocations = <<>>
               /\ pc = "raised" => raised.type = "SystemExit"

\* YT_TARGET_QUALITY=720p: the call failed without a backend invocation
C15_Witness ==
    /\ pc = "raised"
    /\ request.target_quality = NoneInt
    /\ request.min_height = NoneInt
    /\ request.env["YT_TARGET_QUALITY"] = TextHd
    /\ invocations = <<>>
    /\ raised.type = "SystemExit"
    /\ raised.message = "Invalid YT_TARGET_QUALITY='720p': expected integer."

\* the policy a textual source of the inputs names once trimmed and lower-cased
PolicyNamed(text) ==
    CASE text = BestEffort -> "best_effort"
      [] text = BestEffortUpper -> "best_effort"
      [] text = StrictPadded -> "strict"
      [] OTHER -> "neither"

\* the first source of the policy that is given: a non-empty argument, else a non-empty
\* YT_QUALITY_POLICY, else the default strict
PolicySource(cli_value, env) ==
    IF cli_value # NoneStr /\ Len(cli_value) > 0 THEN PolicyNamed(cli_value)
    ELSE IF env["YT_QUALITY_POLICY"] # NoneStr /\ Len(env["YT_QUALITY_POLICY"]) > 0
    THEN PolicyNamed(env["YT_QUALITY_POLICY"])
    ELSE "strict"

\* C16: resolve_quality_policy returns the CLI value when one is given, else the value of
\* YT_QUALITY_POLICY when set, else strict; a resolved value outside {strict,
\* best_effort} raises the fatal configuration error; with no CLI and no environment
\* input the resolvers yield policy strict and height 720.
C16_PolicyPrecedence ==
    /\ (call.fn = "resolvers" /\ ret.policy.done) =>
           LET source == PolicySource(call.quality_policy, call.env)
               result == ret.policy.value
           IN  IF source \in {"strict", "best_effort"}
               THEN ~result.raised /\ result.value = source
               ELSE result.raised
                        /\ result.message = "quality policy must be strict or best_effort"
    /\ (/\ call.fn = "resolvers"
        /\ ret.policy.done
        /\ ret.target.done
        /\ call.target_quality = NoneInt
        /\ call.min_height = NoneInt
        /\ call.quality_policy = NoneStr
        /\ call.env = EmptyEnv) =>
           /\ ~ret.policy.value.raised
           /\ ret.policy.value.value = "strict"
           /\ ~ret.target.value.raised
           /\ ret.target.value.value = 720

\* the CLI value best_effort won over YT_QUALITY_POLICY=" Strict "
C16_Witness ==
    /\ call.fn = "resolvers"
    /\ ret.policy.done
    /\ call.quality_policy = BestEffort
    /\ call.env["YT_QUALITY_POLICY"] = StrictPadded
    /\ ~ret.policy.value.raised
    /\ ret.policy.value.value = "best_effort"

\* a client entry of the inputs without its surrounding whitespace
Trimmed(text) ==
    CASE text = WebPadded -> Web
      [] text = IosPadded -> Ios
      [] text = Blank -> <<>>
      [] text = Tab -> <<>>
      [] OTHER -> text

\* the trimmed entries of a list that are not empty, in their original order
RECURSIVE TrimmedNonEmpty(_)
TrimmedNonEmpty(list) ==
    IF list = <<>> THEN <<>>
    ELSE (IF Trimmed(Head(list)) = <<>> THEN <<>> ELSE <<Trimmed(Head(list))>>)
         \o TrimmedNonEmpty(Tail(list))

\* C17: resolve_effective_clients returns [None] when no client list is supplied; when a
\* list is supplied it returns the trimmed non-empty entries in their original order,
\* and raises the fatal configuration error when that result is empty.
C17_EffectiveClients ==
    (call.fn = "resolve_effective_clients" /\ ret.done) =>
        IF call.player_clients.is_none
        THEN ~ret.value.raised /\ ret.value.value = <<NoneStr>>
        ELSE IF TrimmedNonEmpty(call.player_clients.list) = <<>>
        THEN ret.value.raised
        ELSE /\ ~ret.value.raised
             /\ ret.value.value = TrimmedNonEmpty(call.player_clients.list)

\* C18: for an explicitly supplied client list the resolved client candidates hold no
\* entry twice, and the attempt plan holds no (client, auth context) pair twice.
C18_NoDuplicateClients ==
    (Resolved /\ ~request.player_clients.is_none) =>
        /\ \A i, j \in 1..Len(effective_clients) :
               i # j => effective_clients[i] # effective_clients[j]
        /\ \A i, j \in 1..Len(attempts) :
               i # j =>
                   \/ attempts[i].client # attempts[j].client
                   \/ attempts[i].auth_context # attempts[j].auth_context

\* the browser name a text of the inputs holds
BrowserNamed(text) == IF text = SafariPadded THEN Safari ELSE text

\* the texts of the inputs that are a disabled sentinel: none, off, false in any case
DisabledSentinel(text) == text \in {NoneWord, OffPadded, FalseMixed}

\* C19: when the caller supplies a cookie browser name, resolve_effective_cookies_browsers
\* returns exactly [name], with no fallback browser and whatever the environment holds,
\* unless the value is a disabled sentinel (none, off, false, case-insensitive), in
\* which case it returns [].
C19_ExplicitCookieBrowser ==
    (/\ call.fn = "resolve_effective_cookies_browsers"
     /\ ret.done
     /\ Present(call.cli_value)) =>
        IF DisabledSentinel(call.cli_value) THEN ret.value = <<>>
        ELSE ret.value = <<BrowserNamed(call.cli_value)>>

\* safari was supplied while the environment names firefox
C19_Witness ==
    /\ call.fn = "resolve_effective_cookies_browsers"
    /\ ret.done
    /\ call.cli_value = Safari
    /\ call.env["YT_COOKIES_FROM_BROWSER"] = Firefox
    /\ ret.value = <<Safari>>

\* the primary browser followed by safari and firefox, each unless it is the primary
PrimaryThenFallbacks(primary) ==
    <<primary>>
        \o (IF primary = <<"s", "a", "f", "a", "r", "i">>
            THEN <<>> ELSE << <<"s", "a", "f", "a", "r", "i">> >>)
        \o (IF primary = <<"f", "i", "r", "e", "f", "o", "x">>
            THEN <<>> ELSE << <<"f", "i", "r", "e", "f", "o", "x">> >>)

\* the primary browser when none is supplied: YT_COOKIES_FROM_BROWSER, else chrome
PrimaryBrowser(env) ==
    IF Present(env["YT_COOKIES_FROM_BROWSER"])
    THEN BrowserNamed(env["YT_COOKIES_FROM_BROWSER"])
    ELSE <<"c", "h", "r", "o", "m", "e">>

NoDuplicates(list) == \A i, j \in 1..Len(list) : i # j => list[i] # list[j]

\* C20 as stated: when no cookie browser is supplied the function returns the primary
\* browser (environment default, else chrome) followed by safari and firefox in that
\* order, skipping any already present, without duplicates.
C20_DefaultCookieBrowsers ==
    (/\ call.fn = "resolve_effective_cookies_browsers"
     /\ ret.done
     /\ ~Present(call.cli_value)) =>
        /\ ret.value = PrimaryThenFallbacks(PrimaryBrowser(call.env))
        /\ NoDuplicates(ret.value)

\* C20: when no cookie browser is supplied the function returns [] if the environment
\* default is a disabled sentinel (none, off, false, case-insensitive); otherwise it
\* returns the primary browser (environment default, else chrome) followed by safari
\* and firefox in that order, skipping any already present, without duplicates; with
\* no environment default the list is exactly [chrome, safari, firefox].
C20_DefaultCookieBrowsersUnlessDisabled ==
    (/\ call.fn = "resolve_effective_cookies_browsers"
     /\ ret.done
     /\ ~Present(call.cli_value)) =>
        /\ IF DisabledSentinel(call.env["YT_COOKIES_FROM_BROWSER"])
           THEN ret.value = <<>>
           ELSE ret.value = PrimaryThenFallbacks(PrimaryBrowser(call.env))
        /\ NoDuplicates(ret.value)
        /\ ~Present(call.env["YT_COOKIES_FROM_BROWSER"]) =>
               ret.value = <<Chrome, Safari, Firefox>>

\* the environment names firefox: the fallback firefox is skipped
C20_Witness ==
    /\ call.fn = "resolve_effective_cookies_browsers"
    /\ ret.done
    /\ call.cli_value = NoneStr
    /\ call.env["YT_COOKIES_FROM_BROWSER"] = Firefox
    /\ ret.value = <<Firefox, Safari>>

\* the request holds a configuration error: a target quality out of bounds, a policy
\* that is neither strict nor best_effort, or an explicit client list without a
\* non-empty entry
ConfigurationError ==
    \/ ~TargetInRange(
           TargetSource(request.target_quality, request.min_height, request.env).value)
    \/ PolicySource(request.quality_policy, request.env) \notin {"strict", "best_effort"}
    \/ /\ ~request.player_clients.is_none
       /\ TrimmedNonEmpty(request.player_clients.list) = <<>>

\* C21: a configuration error (height out of bounds, invalid policy string, empty
\* explicit client list) is fatal and not retried: the call raises SystemExit before
\* any backend invocation is made and before any attempt is executed.
C21_ConfigurationErrorFatal ==
    ConfigurationError =>
        /\ pc \in {"start", "raised"}
        /\ invocations = <<>>
        /\ attempt_reasons = <<>>
        /\ pc = "raised" => raised.type = "SystemExit"

\* the decimal digits of the heights and targets of the inputs, as str() writes them
IntChars(n) ==
    CASE n = 480 -> <<"4", "8", "0">>
      [] n = 600 -> <<"6", "0", "0">>
      [] n = 720 -> <<"7", "2", "0">>
      [] n = 1080 -> <<"1", "0", "8", "0">>

\* the characters of a policy name
PolicyChars(policy) ==
    IF policy = "strict" THEN <<"s", "t", "r", "i", "c", "t">>
    ELSE <<"b", "e", "s", "t", "_", "e", "f", "f", "o", "r", "t">>

\* the characters of a mode name
ModeChars(mode) ==
    IF mode = "exact_target"
    THEN <<"e", "x", "a", "c", "t", "_", "t", "a", "r", "g", "e", "t">>
    ELSE <<"b", "e", "s", "t", "_", "b", "e", "l", "o", "w", "_", "o", "r", "_", "e",
           "q", "u", "a", "l", "_", "t", "a", "r", "g", "e", "t">>

\* the characters of the reason the loop recorded for the i-th invocation
ReasonChars(i) ==
    LET invocation == invocations[i]
    IN  <<"c", "l", "i", "e", "n", "t", "=">>
        \o (IF invocation.client = NoneStr THEN <<"a", "u", "t", "o">> ELSE invocation.client)
        \o <<",", " ", "a", "u", "t", "h", "=">>
        \o (IF invocation.browser = NoneStr THEN <<"n", "o", "n", "e">>
            ELSE <<"c", "o", "o", "k", "i", "e", "s", ":">> \o invocation.browser)
        \o <<",", " ", "m", "o", "d", "e", "=">> \o ModeChars(invocation.mode) \o <<":", " ">>
        \o (IF invocation.error # NoneStr THEN clean_error_message(invocation.error)
            ELSE <<"a", "c", "t", "u", "a", "l", "_", "q", "u", "a", "l", "i", "t",
                   "y", "=">>
                 \o (IF invocation.height = NoneInt THEN <<"u", "n", "k", "n", "o", "w", "n">>
                     ELSE IntChars(invocation.height))
                 \o (IF invocation.mode = "exact_target"
                     THEN <<" ", "d", "o", "e", "s", "_", "n", "o", "t", "_", "m", "a",
                            "t", "c", "h", "_", "t", "a", "r", "g", "e", "t", "=">>
                     ELSE <<" ", "a", "b", "o", "v", "e", "_", "t", "a", "r", "g", "e",
                            "t", "=">>)
                 \o IntChars(effective_target_quality))

RECURSIVE JoinedReasonChars(_, _)
JoinedReasonChars(first, last) ==
    IF first > last THEN <<>>
    ELSE IF first = last THEN ReasonChars(first)
    ELSE ReasonChars(first) \o <<";", " ">> \o JoinedReasonChars(first + 1, last)

\* the characters of the message of the failure that left the call: the message of the
\* re-raised DownloadError, or the message of the exhaustion error
FailureChars ==
    IF raised.type = "DownloadError" THEN invocations[Len(invocations)].error
    ELSE <<"N", "o", " ", "c", "o", "m", "p", "a", "t", "i", "b", "l", "e", " ", "f",
           "o", "r", "m", "a", "t", " ", "f", "o", "u", "n", "d", " ", "f", "o", "r",
           " ", "r", "e", "q", "u", "e", "s", "t", "e", "d", " ", "q", "u", "a", "l",
           "i", "t", "y", " ">>
         \o IntChars(effective_target_quality)
         \o <<".", " ", "R", "e", "c", "e", "n", "t", " ", "r", "e", "a", "s", "o",
              "n", "s", ":", " ">>
         \o JoinedReasonChars(
                IF Len(invocations) > 4 THEN Len(invocations) - 3 ELSE 1, Len(invocations))

\* the call failed with a fatal backend error or by exhausting the search
EngineFailure ==
    /\ pc = "raised"
    /\ Resolved
    /\ invocations[Len(invocations)].result # "path_undetermined"

\* C22: the message of every failure the engine raises (fatal backend error or search
\* exhaustion) includes the target quality, the policy, and the reasons of a bounded
\* number of recent attempts, the last attempt's among them.
C22_FailureMessageContent ==
    EngineFailure =>
        /\ raised.message = Str(FailureChars)
        /\ contains(FailureChars, IntChars(effective_target_quality))
        /\ contains(FailureChars, PolicyChars(effective_quality_policy))
        /\ contains(FailureChars, ReasonChars(Len(invocations)))

\* the last backend invocation, and whether an invocation came back with metadata and
\* an artifact, so that the quality gate saw it
Last == invocations[Len(invocations)]

Gated(invocation) == invocation.error = NoneStr /\ invocation.result # "path_undetermined"

RequiresExactMatch(invocation) == quality_modes[invocation.mode_index].requires_exact_match

\* the last invocation was rejected by the gate: its artifact is gone, its reason is the
\* one reason recorded for it, and the loop stands at the next combination
RejectedAndContinued ==
    /\ Last.result = "quality_rejected"
    /\ pc # "returned"
    /\ Last.path \notin Range(output_dir)
    /\ Len(attempt_reasons) = Len(invocations)
    /\ attempt_reasons[Len(invocations)] = Last.reason
    /\ Len(invocations) < Combinations =>
           /\ pc = "running"
           /\ mode_index = ModeOf(Len(invocations) + 1)
           /\ attempt_index = AttemptOf(Len(invocations) + 1)

\* C23: in a mode that requires an exact match a backend result whose height differs
\* from the target or is unknown is never accepted: its artifact is deleted, one
\* rejection reason is recorded and the search continues with the next attempt.
C23_ExactModeRejects ==
    Resolved =>
        /\ \A i \in 1..Len(invocations) :
               (/\ RequiresExactMatch(invocations[i])
                /\ Gated(invocations[i])
                /\ invocations[i].height # effective_target_quality) =>
                   invocations[i].result = "quality_rejected"
        /\ (/\ invocations # <<>>
            /\ RequiresExactMatch(Last)
            /\ Gated(Last)
            /\ Last.height # effective_target_quality) => RejectedAndContinued

\* a result of unknown height was rejected in exact_target, with an attempt left
C23_Witness ==
    /\ pc = "running"
    /\ invocations # <<>>
    /\ RequiresExactMatch(Last)
    /\ Gated(Last)
    /\ Last.height = NoneInt
    /\ Last.result = "quality_rejected"
    /\ Last.path = VideoMp4
    /\ Len(invocations) < Combinations

\* C24: in the relaxed mode a backend result whose height is known and exceeds the
\* target is rejected: its artifact is deleted, one rejection reason is recorded and
\* the search continues with the next attempt; a result of unknown height or of
\* height at most the target is accepted and its artifact is returned.
C24_RelaxedModeGate ==
    (/\ Resolved
     /\ invocations # <<>>
     /\ ~RequiresExactMatch(Last)
     /\ Gated(Last)) =>
        IF Last.height # NoneInt /\ Last.height > effective_target_quality
        THEN RejectedAndContinued
        ELSE /\ Last.result = "accepted"
             /\ pc = "returned"
             /\ outcome.path = Last.path
             /\ outcome.height = Last.height
             /\ outcome.path \in Range(output_dir)

\* a result above the target was rejected in the relaxed mode
C24_Witness ==
    /\ pc = "running"
    /\ invocations # <<>>
    /\ ~RequiresExactMatch(Last)
    /\ Gated(Last)
    /\ Last.height = 1080
    /\ effective_target_quality = 720
    /\ Last.result = "quality_rejected"

\* C25: under strict no relaxed-mode invocation precedes an exact-mode invocation, and
\* an outcome is accepted in the relaxed mode only after every attempt of the plan was
\* executed in exact_target and failed with a retryable error or a quality rejection.
C25_StrictRelaxedAfterExact ==
    (Resolved /\ effective_quality_policy = "strict") =>
        /\ \A i, j \in 1..Len(invocations) :
               i < j => ~(/\ invocations[i].mode = "best_below_or_equal_target"
                          /\ invocations[j].mode = "exact_target")
        /\ (pc = "returned" /\ AcceptedMode = "best_below_or_equal_target") =>
               /\ Len(invocations) > Len(attempts)
               /\ \A k \in 1..Len(attempts) :
                      /\ invocations[k].mode = "exact_target"
                      /\ invocations[k].attempt_index = k
                      /\ invocations[k].result \in {"retryable_error", "quality_rejected"}

\* accepted in the relaxed mode under strict after both attempts of the plan failed in
\* exact_target
C25_Witness ==
    /\ pc = "returned"
    /\ effective_quality_policy = "strict"
    /\ AcceptedMode = "best_below_or_equal_target"
    /\ Len(attempts) = 2
    /\ invocations[1].result = "retryable_error"
    /\ invocations[2].result = "quality_rejected"

\* C26: within each quality mode no invocation that uses a cookie source is made before
\* an unauthenticated invocation was made for every client of the plan.
C26_PlainBeforeCookies ==
    \A j \in 1..Len(invocations) :
        invocations[j].browser # NoneStr =>
            \A c \in 1..Len(effective_clients) :
                \E i \in 1..(j - 1) :
                    /\ invocations[i].mode_index = invocations[j].mode_index
                    /\ invocations[i].browser = NoneStr
                    /\ invocations[i].client = effective_clients[c]

\* a cookie invocation after the plain invocations of two different clients
C26_Witness ==
    /\ Len(effective_clients) = 2
    /\ effective_clients[1] # effective_clients[2]
    /\ Len(invocations) >= 3
    /\ invocations[1].browser = NoneStr
    /\ invocations[2].browser = NoneStr
    /\ invocations[3].browser = Safari

C28_ForeignFilesTolerated ==
    \A i \in 1..Len(invocations) :
        (Gated(invocations[i]) /\ invocations[i].produced # <<>>) =>
            /\ invocations[i].path # Other
            /\ invocations[i].path \in Range(invocations[i].produced)

\* C30: a file that was in the output directory when the snapshot of an attempt was
\* taken is never deleted by the quality gate of that attempt.
C30_SnapshotFilesKept ==
    \A i \in 1..Len(invocations) :
        invocations[i].result = "quality_rejected" =>
            invocations[i].path \notin invocations[i].known_paths_before

\* the paths the backend reported, in the order the code reads them; a key left out
\* stands as NoPath, which is no file
ReportedPaths ==
    <<call.info._filename, call.info.filepath>>
        \o [i \in 1..Len(call.info.requested_downloads) |->
               call.info.requested_downloads[i].filepath]
        \o <<call.info.prepared>>

OnDisk(path) == \E i \in 1..Len(call.dir) : call.dir[i] = path

Mp4Sibling(path) ==
    IF path = VideoWebm \/ path = VideoMp4 THEN VideoMp4
    ELSE IF path = Other THEN Other
    ELSE IF path = Earlier THEN Earlier
    ELSE NoPath

\* the positions of the directory whose file is not in the snapshot
CreatedSinceSnapshot == {i \in 1..Len(call.dir) : call.dir[i] \notin call.known_paths_before}

\* the result is the newest file created since the snapshot, or the failure when there
\* is none
NewestCreatedOrFailure ==
    IF CreatedSinceSnapshot = {} THEN ret.value.raised
    ELSE /\ ~ret.value.raised
         /\ \E i \in CreatedSinceSnapshot :
                /\ ret.value.value = call.dir[i]
                /\ \A j \in CreatedSinceSnapshot : j <= i
         /\ ret.value.value \notin call.known_paths_before

\* C29: the artifact is the first backend-reported path that exists on disk; only when
\* no reported path exists is it the newest file of the directory that was not in the
\* snapshot, and then it is never a file of the snapshot.
C29_ReportedPathThenNewest ==
    (call.fn = "resolve_downloaded_file_path" /\ ret.done) =>
        LET reported == {i \in 1..Len(ReportedPaths) : OnDisk(ReportedPaths[i])}
        IN  IF reported # {}
            THEN /\ ~ret.value.raised
                 /\ \E i \in reported :
                        /\ ret.value.value = ReportedPaths[i]
                        /\ \A j \in reported : i <= j
            ELSE NewestCreatedOrFailure

\* C29, amended: the artifact is found at the first backend-reported path that exists
\* on disk itself or under the suffix .mp4 - the path itself if it exists, else its
\* .mp4 sibling; only when no reported path exists in either form is it the newest
\* file of the directory that was not in the snapshot, and then it is never a file of
\* the snapshot.
C29_ReportedPathOrMp4SiblingThenNewest ==
    (call.fn = "resolve_downloaded_file_path" /\ ret.done) =>
        LET found == {i \in 1..Len(ReportedPaths) :
                         ReportedPaths[i] # NoPath
                         /\ (OnDisk(ReportedPaths[i]) \/ OnDisk(Mp4Sibling(ReportedPaths[i])))}
        IN  IF found # {}
            THEN /\ ~ret.value.raised
                 /\ \E i \in found :
                        /\ \A j \in found : i <= j
                        /\ ret.value.value = IF OnDisk(ReportedPaths[i]) THEN ReportedPaths[i]
                                              ELSE Mp4Sibling(ReportedPaths[i])
            ELSE NewestCreatedOrFailure

\* no reported path exists in either form, the newest file of the directory is in the
\* snapshot, and the older file created since is the artifact
C29_Witness ==
    /\ call.fn = "resolve_downloaded_file_path"
    /\ ret.done
    /\ call.info.prepared = VideoWebm
    /\ call.info.filepath = NoPath
    /\ call.info.requested_downloads = <<>>
    /\ call.dir = <<Other, Earlier>>
    /\ call.known_paths_before = {Earlier}
    /\ ~ret.value.raised
    /\ ret.value.value = Other

Ended == pc \in {"returned", "raised"}

\* the call ended in one way only, by an accepted attempt or by an exception
OneEnding ==
    /\ pc = "returned" =>
           /\ outcome # NoOutcome /\ raised = NoException
           /\ invocations # <<>> /\ Last.result = "accepted"
    /\ pc = "raised" =>
           /\ raised # NoException /\ outcome = NoOutcome
           /\ \A i \in 1..Len(invocations) : invocations[i].result # "accepted"
    /\ ~Ended => outcome = NoOutcome /\ raised = NoException

\* the loops ran out: every mode was tried with every entry of the plan
SpaceExhausted ==
    /\ quality_modes # <<>>
    /\ mode_index > Len(quality_modes)
    /\ Len(invocations) = Len(quality_modes) * Len(attempts)

\* C31: provided every backend call returns or raises, download terminates; it is
\* driven until one attempt succeeds or the mode x attempt space is exhausted and ends
\* in exactly one of a returned outcome or a raised error.
C31_Terminates ==
    /\ <>Ended
    /\ [](OneEnding)
    /\ []((pc = "running" /\ mode_index > Len(quality_modes)) => SpaceExhausted)
    /\ []((/\ pc = "raised"
            /\ quality_modes # <<>>
            /\ Last.result \notin {"fatal_error", "path_undetermined"}) => SpaceExhausted)

\* the call ended by exhaustion after two modes of four attempts each
C31_Witness ==
    /\ pc = "raised"
    /\ SpaceExhausted
    /\ Len(invocations) = 8

\* C32: a backend download failure is classified retryable, and the loop continues,
\* if and only if its message holds at least one marker of the fixed set in any case;
\* every other failure is fatal and is raised again.
C32_RetryableIffMarker ==
    (call.fn = "is_retryable_download_error" /\ ret.done) =>
        IF call.body \in MarkerBodies
        THEN ret.value.retryable /\ ret.value.next = "continue"
        ELSE ~ret.value.retryable /\ ret.value.next = "raise"

\* an upper-case marker inside a longer message was classified retryable
C32_Witness ==
    /\ call.fn = "is_retryable_download_error"
    /\ ret.done
    /\ call.body = <<"H", "T", "T", "P", " ", "E", "R", "R", "O", "R", " ", "4", "0", "3">>
    /\ call.prefix # <<>>
    /\ call.suffix # <<>>
    /\ ret.value.retryable
    /\ ret.value.next = "continue"

\* the paths the metadata of the latest result names
ReportedPathsOfLast == {reported_paths[i] : i \in 1..Len(reported_paths)} \ {NoPath}

\* the files of the directory when the artifact of the last invocation was looked for
OnDiskAtLast == Last.known_paths_before \cup Range(Last.written)

\* the last backend call returned metadata, no path it names is on disk and no file
\* was created since the snapshot
NothingToLocate ==
    /\ invocations # <<>>
    /\ Last.error = NoneStr
    /\ ReportedPathsOfLast \cap OnDiskAtLast = {}
    /\ Range(Last.written) \subseteq Last.known_paths_before

\* the same, with the .mp4 sibling of a named path counted as the named path
NothingToLocateUnderMp4 ==
    /\ NothingToLocate
    /\ \A path \in ReportedPathsOfLast :
           [stem |-> path.stem, ext |-> ".mp4"] \notin OnDiskAtLast

\* the call was aborted at the last invocation, without a reason appended or an
\* outcome returned
AbortedAtLast ==
    /\ pc = "raised"
    /\ raised.type = "SystemExit"
    /\ raised.message = "Download finished but saved file path could not be determined."
    /\ outcome = NoOutcome
    /\ Len(attempt_reasons) = Len(invocations) - 1

\* C33: if the backend returns metadata but no artifact can be located - no reported
\* path exists on disk and no file was created since the snapshot - download aborts
\* at once with a fatal error and makes no further backend invocation.
C33_AbortsWithoutArtifact == NothingToLocate => AbortedAtLast

\* C33, amended: if the backend returns metadata but no artifact can be located - no
\* reported path exists on disk, itself or under the suffix .mp4, and no file was
\* created since the snapshot - download aborts at once with a fatal error and makes
\* no further backend invocation; it aborts so in no other case.
C33_AbortsWithoutArtifactOrMp4Sibling ==
    /\ NothingToLocateUnderMp4 => AbortedAtLast
    /\ \A i \in 1..Len(invocations) :
           invocations[i].result = "path_undetermined" =>
               i = Len(invocations) /\ NothingToLocateUnderMp4 /\ AbortedAtLast

\* the second attempt returned metadata and wrote no file, the directory held the file
\* of another process only, and the call was aborted
C33_Witness ==
    /\ Len(invocations) = 2
    /\ invocations[1].result = "quality_rejected"
    /\ invocations[2].result = "path_undetermined"
    /\ invocations[2].known_paths_before = {Other}
    /\ invocations[2].written = <<>>
    /\ AbortedAtLast

\* C35: in every outcome download returns, fallback_reason is set if and only if
\* fallback is true.
C35_ReasonIffFallback ==
    pc = "returned" =>
        /\ outcome.fallback \in BOOLEAN
        /\ outcome.fallback <=> outcome.fallback_reason # ""

\* an outcome of the target height from the relaxed mode under strict carries the flag
\* and its reason
C35_Witness ==
    /\ pc = "returned"
    /\ outcome.quality_policy = "strict"
    /\ outcome.height = outcome.target_quality
    /\ outcome.fallback
    /\ outcome.fallback_reason = "exact_target_unavailable, requested=720"

\* the invocations that ended in one of the given ways
EndedIn(results) == {i \in 1..Len(invocations) : invocations[i].result \in results}

\* the loops were left with every combination tried
SearchExhausted ==
    /\ quality_modes # <<>>
    /\ mode_index > Len(quality_modes)

\* on exhaustion the list holds |modes| * |plan| >= 1 reasons and the summary of the
\* error is not 'no details'
ReasonsOnExhaustion ==
    SearchExhausted =>
        /\ Len(attempt_reasons) = Len(quality_modes) * Len(attempts)
        /\ Len(attempt_reasons) >= 1
        /\ pc = "raised" =>
               raised.message # "No compatible format found for requested quality "
                                    \o ToString(effective_target_quality)
                                    \o ". Recent reasons: no details"

\* C40: every attempt that does not end in acceptance appends exactly one reason to
\* the list of reasons, so on exhaustion the list holds |modes| * |plan| >= 1 reasons
\* and the 'no details' summary is never produced.
C40_OneReasonPerFailedAttempt ==
    /\ Len(attempt_reasons) = Cardinality(EndedIn({"retryable_error", "fatal_error",
                                                    "quality_rejected", "path_undetermined"}))
    /\ ReasonsOnExhaustion

\* C40, amended: every attempt that ends in a backend download error or a quality
\* rejection appends exactly one reason, its own, to the list of reasons, and an
\* attempt that is accepted or aborted because no artifact was located appends none;
\* so on exhaustion the list holds |modes| * |plan| >= 1 reasons and the 'no details'
\* summary is never produced.
C40_OneReasonPerErrorOrRejection ==
    /\ LET failed == EndedIn({"retryable_error", "fatal_error", "quality_rejected"})
       IN  /\ failed = 1..Len(attempt_reasons)
           /\ \A i \in failed : attempt_reasons[i] = invocations[i].reason
    /\ \A i \in EndedIn({"accepted", "path_undetermined"}) :
           i = Len(invocations) /\ invocations[i].reason = ""
    /\ ReasonsOnExhaustion

\* the search was exhausted after eight attempts that left eight reasons
C40_Witness ==
    /\ SearchExhausted
    /\ pc = "raised"
    /\ Len(attempt_reasons) = 8
    /\ Cardinality(EndedIn({"quality_rejected"})) = 4
    /\ Cardinality(EndedIn({"retryable_error"})) = 4

\* the second call has gone as far as the first: it ended, or the backend is asked once
\* more than it was in the first call
SecondCallSettled ==
    /\ ret.done
    /\ \/ pc \in {"returned", "raised"}
       \/ pc = "running" /\ mode_index <= Len(quality_modes)
              /\ call.replayed = Len(call.responses)

\* C34: a call with allow_strict_relaxation=False invokes the backend as the call with
\* True on the same inputs and backend answers does, invocation by invocation, and ends
\* as it ends; under the strict policy it goes on to best_below_or_equal_target
C34_RelaxationFlagIgnored ==
    ret.done =>
        /\ Len(invocations) <= Len(ret.value.invocations)
        /\ invocations = SubSeq(ret.value.invocations, 1, Len(invocations))
        /\ SecondCallSettled => Observed = ret.value
        /\ (pc # "start" /\ effective_quality_policy = "strict") =>
               /\ Len(quality_modes) = 2
               /\ quality_modes[2].name = "best_below_or_equal_target"
               /\ (pc = "raised" /\ invocations[Len(invocations)].result = "retryable_error")
                      => invocations[Len(invocations)].mode = "best_below_or_equal_target"

\* a strict call with allow_strict_relaxation=False that went through both modes and
\* accepted a download in the relaxed one
C34_Witness ==
    /\ ret.done
    /\ ~call.allow_strict_relaxation
    /\ effective_quality_policy = "strict"
    /\ pc = "returned"
    /\ Len(invocations) = 3
    /\ invocations[2].mode = "exact_target"
    /\ invocations[3].mode = "best_below_or_equal_target"
    /\ Observed = ret.value

(***************************************************************************)
(* drive_uploader.py: _upload_file                                         *)
(***************************************************************************)

\* the largest --retries
MaxRetries == 2

\* the most chunks a resumable upload of the file takes
MaxChunks == 2

\* the statuses of the HttpError the API client raises; NoneInt: resp.status is no int
HttpStatuses == {400, 403, 404, 408, 429, 500, 501, 502, 503, 504, NoneInt}

NoneExc == [type |-> "None", status |-> NoneInt, message |-> ""]

HttpError(status) == [type |-> "HttpError", status |-> status, message |-> ""]

\* an exception that is no HttpError: a timeout, a broken connection
TransportError == [type |-> "TimeoutError", status |-> NoneInt, message |-> ""]

RuntimeError(message) == [type |-> "RuntimeError", status |-> NoneInt, message |-> message]

AssertionError == [type |-> "AssertionError", status |-> NoneInt, message |-> ""]

\* response: dict | None = None
NoResponse == [id |-> "None"]

\* the metadata of the created file
DriveFile == [id |-> "file-1"]

Responds(value) == [raised |-> FALSE, value |-> value, exc |-> NoneExc]

UploadRaises(exc) == [raised |-> TRUE, value |-> NoResponse, exc |-> exc]

\* a status list without 504
_should_retry_http_without_504(status) == status \in {408, 429, 500, 502, 503}

_should_retry_http(status) == status \in {408, 429, 500, 502, 503, 504}

\* a loop of retries + 2 iterations
InLoop_one_more(attempt, retries) == attempt \in 1..(retries + 2)

\* for attempt in range(1, retries + 2): the loop variable is in the range
InLoop(attempt, retries) == attempt \in 1..(retries + 1)

\* the two except clauses of either loop
OnUploadError(attempt, retries, exc) ==
    IF exc.type = "HttpError"
    THEN IF exc.status # NoneInt /\ _should_retry_http(exc.status) /\ attempt <= retries + 1
         THEN "continue"
         ELSE "raise"
    ELSE IF attempt <= retries + 1 THEN "continue" ELSE "raise"

\* what request.execute() does
ExecuteResults ==
    {Responds(DriveFile), UploadRaises(TransportError)}
        \cup {UploadRaises(HttpError(status)) : status \in HttpStatuses}

\* what request.next_chunk() does after sent chunks of the file: (status, None) before
\* the last chunk, (status, response) with it
ChunkResults(sent, chunks) ==
    {Responds(IF sent + 1 < chunks THEN NoResponse ELSE DriveFile), UploadRaises(TransportError)}
        \cup {UploadRaises(HttpError(status)) : status \in HttpStatuses}

UploadCalls ==
    [fn : {"_upload_file"},
     resumable : BOOLEAN,
     retries : 0..MaxRetries,
     chunks : 1..MaxChunks,
     attempt : {1},
     last_exc : {NoneExc},
     response : {NoResponse},
     sent : {0},
     calls : {<<>>}]

InitUpload == Idle /\ call \in UploadCalls /\ ret = NotReturned

\* one iteration of the loop of lines 206-223
Execute ==
    /\ call.fn = "_upload_file"
    /\ ~ret.done
    /\ ~call.resumable
    /\ InLoop(call.attempt, call.retries)
    /\ \E result \in ExecuteResults :
           LET made == Append(call.calls, [attempt |-> call.attempt, result |-> result])
           IN  IF ~result.raised
               THEN /\ ret' = [done |-> TRUE, value |-> Responds(result.value)]
                    /\ call' = [call EXCEPT !.calls = made]
               ELSE IF OnUploadError(call.attempt, call.retries, result.exc) = "continue"
               THEN /\ call' = [call EXCEPT !.calls = made, !.last_exc = result.exc,
                                            !.attempt = @ + 1]
                    /\ ret' = ret
               ELSE /\ call' = [call EXCEPT !.calls = made, !.last_exc = result.exc]
                    /\ ret' = [done |-> TRUE, value |-> UploadRaises(result.exc)]
    /\ UNCHANGED download_vars

\* one call of next_chunk in the loops of lines 229-253; after an exception the upload
\* goes on from what the server has kept
NextChunk ==
    /\ call.fn = "_upload_file"
    /\ ~ret.done
    /\ call.resumable
    /\ InLoop(call.attempt, call.retries)
    /\ call.response = NoResponse
    /\ \E result \in ChunkResults(call.sent, call.chunks) :
           LET made == Append(call.calls, [attempt |-> call.attempt, result |-> result])
           IN  IF ~result.raised
               THEN IF result.value = NoResponse
                    THEN /\ call' = [call EXCEPT !.calls = made, !.sent = @ + 1]
                         /\ ret' = ret
                    ELSE /\ call' = [call EXCEPT !.calls = made, !.sent = @ + 1,
                                                 !.response = result.value]
                         /\ ret' = [done |-> TRUE, value |-> Responds(result.value)]
               ELSE IF OnUploadError(call.attempt, call.retries, result.exc) = "continue"
               THEN /\ \E kept \in {0, call.sent} :
                           call' = [call EXCEPT !.calls = made, !.attempt = @ + 1,
                                                !.sent = kept]
                    /\ ret' = ret
               ELSE /\ call' = [call EXCEPT !.calls = made]
                    /\ ret' = [done |-> TRUE, value |-> UploadRaises(result.exc)]
    /\ UNCHANGED download_vars

\* the statements after the loops: lines 224-225 and 255-257
AfterUploadLoop ==
    /\ call.fn = "_upload_file"
    /\ ~ret.done
    /\ ~InLoop(call.attempt, call.retries)
    /\ ret' = [done |-> TRUE,
               value |-> IF ~call.resumable
                         THEN IF call.last_exc = NoneExc
                              THEN UploadRaises(AssertionError)
                              ELSE UploadRaises(call.last_exc)
                         ELSE IF call.response = NoResponse
                              THEN UploadRaises(RuntimeError("Upload failed without a response."))
                              ELSE Responds(call.response)]
    /\ UNCHANGED <<download_vars, call>>

NextUpload == Execute \/ NextChunk \/ AfterUploadLoop

SpecUpload == InitUpload /\ [][NextUpload]_vars

\* whether the loops go on after an exception, by its kind
OnUploadError_Oracle(exc) ==
    IF exc.type = "HttpError" /\ exc.status \notin {408, 429, 500, 502, 503, 504}
    THEN "raise" ELSE "continue"

\* the loop iterations _upload_file has entered
UploadAttempts == {call.calls[i].attempt : i \in 1..Len(call.calls)}

\* every iteration so far ended in an exception that was not raised again
AllUploadAttemptsFailed ==
    /\ call.calls # <<>>
    /\ call.calls[Len(call.calls)].attempt = call.retries + 1
    /\ call.calls[Len(call.calls)].result.raised
    /\ OnUploadError_Oracle(call.calls[Len(call.calls)].result.exc) = "continue"

\* the calls and statements _upload_file still has to make at most
UploadMeasure ==
    IF ret.done THEN 0
    ELSE 1 + (call.retries + 2 - call.attempt) * (call.chunks + 1)
           + (call.chunks - call.sent)

UploadBounded ==
    /\ UploadAttempts \subseteq 1..(call.retries + 1)
    /\ \A i \in 1..Len(call.calls) - 1 :
           call.calls[i + 1].attempt \in {call.calls[i].attempt, call.calls[i].attempt + 1}
    /\ ~call.resumable => Len(call.calls) <= call.retries + 1
    /\ call.resumable =>
           \A attempt \in UploadAttempts :
               Cardinality({i \in 1..Len(call.calls) : call.calls[i].attempt = attempt})
                   <= call.chunks
    /\ UploadMeasure >= 0
    /\ ret.done =>
           /\ ~ret.value.raised =>
                  /\ ret.value.value = DriveFile
                  /\ ~call.calls[Len(call.calls)].result.raised
           /\ (ret.value.raised /\ AllUploadAttemptsFailed) =>
                  ret.value.exc = IF call.resumable
                                  THEN RuntimeError("Upload failed without a response.")
                                  ELSE call.calls[Len(call.calls)].result.exc

\* C36: _upload_file enters at most retries + 1 iterations in either mode and every
\* step brings it nearer to its end; it ends returning the response or raising, and
\* after retries + 1 failed attempts it raises the last exception (non-resumable)
\* or RuntimeError "Upload failed without a response." (resumable)
C36_AtMostRetriesPlusOneAttempts ==
    /\ [](call.fn = "_upload_file" => UploadBounded)
    /\ [][call.fn = "_upload_file" => UploadMeasure' < UploadMeasure]_vars

\* a resumable upload that sent a chunk and then failed in each of its three attempts
C36_Witness ==
    /\ call.fn = "_upload_file"
    /\ call.resumable
    /\ call.retries = 2
    /\ ret.done
    /\ ret.value.raised
    /\ ret.value.exc = RuntimeError("Upload failed without a response.")
    /\ UploadAttempts = {1, 2, 3}
    /\ Len(call.calls) = 4

\* C37: an HttpError whose status is not 408, 429, 500, 502, 503 or 504 ends the
\* call with that exception at once; one with such a status is followed by the next
\* attempt whenever an attempt is left
C37_OnlyTransientStatusesRetried ==
    call.fn = "_upload_file" =>
        \A i \in 1..Len(call.calls) :
            LET made == call.calls[i]
            IN  (made.result.raised /\ made.result.exc.type = "HttpError") =>
                    IF made.result.exc.status \in {408, 429, 500, 502, 503, 504}
                    THEN made.attempt <= call.retries =>
                             IF i = Len(call.calls)
                             THEN ~ret.done /\ call.attempt = made.attempt + 1
                             ELSE call.calls[i + 1].attempt = made.attempt + 1
                    ELSE /\ i = Len(call.calls)
                         /\ ret.done
                         /\ ret.value = UploadRaises(made.result.exc)

\* a 504 that was retried and a 404 that was not, with an attempt left
C37_Witness ==
    /\ call.fn = "_upload_file"
    /\ call.retries = 2
    /\ Len(call.calls) = 2
    /\ call.calls[1].result = UploadRaises(HttpError(504))
    /\ call.calls[2].result = UploadRaises(HttpError(404))
    /\ call.calls[2].attempt = 2
    /\ ret.done
    /\ ret.value = UploadRaises(HttpError(404))

(***************************************************************************)
(* tg-scraper.py: the retry loop of main_async                             *)
(***************************************************************************)

EXIT_CHANNEL_ERROR == 3

EXIT_NETWORK_ERROR == 4

EXIT_FILE_WRITE_ERROR == 5

max_attempts == 3

\* a test that lets one more attempt through
GivesUp_after(attempt) == attempt > max_attempts

\* if attempt >= max_attempts
GivesUp(attempt) == attempt >= max_attempts

NothingRaised == [type |-> "none", code |-> 0]

\* sys.exit(code)
ScraperExit(code) == [type |-> "SystemExit", code |-> code]

\* an exception of the named class
ScraperError(type) == [type |-> type, code |-> 1]

\* await client.start(): the client is connected and authorised, or the call raises
\* with the connection open or not
StartResults ==
    {[raised |-> NothingRaised, connected |-> TRUE]}
        \cup [raised : {ScraperError("FloodWaitError"), ScraperError("RPCError"),
                        ScraperError("TimeoutError")},
              connected : BOOLEAN]

\* try_join_if_needed ignores every RPCError; it is skipped under --no-join
JoinResults(no_join) == IF no_join THEN {"skipped"} ELSE {"joined", "RPCError ignored"}

\* export_history: the export is written; get_entity fails (exit 3 or 4); the file
\* cannot be written (exit 5); iter_messages raises FloodWaitError (raised again) or
\* another RPCError (exit 4); something else is raised
ExportResults ==
    {NothingRaised, ScraperExit(EXIT_CHANNEL_ERROR), ScraperExit(EXIT_NETWORK_ERROR),
     ScraperExit(EXIT_FILE_WRITE_ERROR), ScraperError("FloodWaitError"),
     ScraperError("TimeoutError")}

\* a finally clause that leaves the connection as it is
Finally_skipped(connected) == connected

\* finally: if client.is_connected(): await client.disconnect()
Finally(connected) == IF connected THEN FALSE ELSE connected

\* what follows the try body of the attempt: break, or an except clause, and the
\* finally clause
AttemptEnd(attempt, exc, connected) ==
    IF exc = NothingRaised
    THEN [next |-> "return", code |-> 0, connected |-> Finally(connected)]
    ELSE IF exc.type \in {"FloodWaitError", "RPCError"}
    THEN [next |-> IF GivesUp(attempt) THEN "exit" ELSE "loop",
          code |-> IF GivesUp(attempt) THEN EXIT_NETWORK_ERROR ELSE 0,
          connected |-> Finally(FALSE)]
    ELSE [next |-> IF exc.type = "SystemExit" THEN "exit" ELSE "raise",
          code |-> exc.code,
          connected |-> Finally(connected)]

ScraperCalls ==
    [fn : {"main_async"},
     no_join : BOOLEAN,
     attempt : {0},
     connected : {FALSE},
     awaiting : {"loop"},
     log : {<<>>}]

InitScraper == Idle /\ call \in ScraperCalls /\ ret = NotReturned

\* the attempt ends: the loop goes on, or main_async returns, exits or raises
EndOfAttempt(attempt, joined, exc, connected) ==
    LET end == AttemptEnd(attempt, exc, connected)
        entry == [attempt |-> attempt, joined |-> joined, raised |-> exc,
                  next |-> end.next]
    IN  /\ call' = [call EXCEPT !.attempt = attempt, !.connected = end.connected,
                                !.awaiting = "loop", !.log = Append(@, entry)]
        /\ ret' = IF end.next = "loop" THEN ret
                  ELSE [done |-> TRUE, value |-> [kind |-> end.next, code |-> end.code]]

\* attempt += 1; await client.start()
Start ==
    /\ call.fn = "main_async"
    /\ ~ret.done
    /\ call.awaiting = "loop"
    /\ \E result \in StartResults :
           IF result.raised = NothingRaised
           THEN /\ call' = [call EXCEPT !.attempt = @ + 1,
                                        !.connected = result.connected,
                                        !.awaiting = "export"]
                /\ ret' = ret
           ELSE EndOfAttempt(call.attempt + 1, "not reached", result.raised,
                             result.connected)
    /\ UNCHANGED download_vars

\* try_join_if_needed and export_history, to the end of the attempt
Export ==
    /\ call.fn = "main_async"
    /\ ~ret.done
    /\ call.awaiting = "export"
    /\ \E joined \in JoinResults(call.no_join), exc \in ExportResults :
           EndOfAttempt(call.attempt, joined, exc, call.connected)
    /\ UNCHANGED download_vars

NextScraper == Start \/ Export

SpecScraper == InitScraper /\ [][NextScraper]_vars

\* C38: main_async makes at most 3 attempts, numbered 1, 2, 3; an attempt that
\* completes the export is the last and main_async returns; a third attempt that
\* fails with FloodWaitError or another RPCError exits the process with code 4; and
\* whenever no attempt is under way the client is disconnected
C38_ThreeAttemptsThenExit4 ==
    call.fn = "main_async" =>
        /\ call.attempt <= 3
        /\ Len(call.log) <= 3
        /\ \A i \in 1..Len(call.log) :
               /\ call.log[i].attempt = i
               /\ call.log[i].raised.type = "none" =>
                      /\ i = Len(call.log)
                      /\ ret = [done |-> TRUE, value |-> [kind |-> "return", code |-> 0]]
               /\ (i = 3 /\ call.log[i].raised.type \in {"FloodWaitError", "RPCError"}) =>
                      ret = [done |-> TRUE, value |-> [kind |-> "exit", code |-> 4]]
               /\ (i < 3 /\ call.log[i].raised.type \in {"FloodWaitError", "RPCError"}) =>
                      \/ i < Len(call.log)
                      \/ ~ret.done
        /\ (call.awaiting = "loop" \/ ret.done) => ~call.connected

\* three attempts: start fails with an RPCError, the export is stopped by a FloodWait
\* twice, and the process exits with code 4
C38_Witness ==
    /\ call.fn = "main_async"
    /\ Len(call.log) = 3
    /\ call.log[1].raised.type = "RPCError"
    /\ call.log[2].raised.type = "FloodWaitError"
    /\ call.log[2].joined = "joined"
    /\ call.log[3].raised.type = "FloodWaitError"
    /\ ret = [done |-> TRUE, value |-> [kind |-> "exit", code |-> 4]]
    /\ ~call.connected

(***************************************************************************)
(* webm_to_mp4_converter.py: ProgressTracker under the worker threads      *)
(***************************************************************************)

\* fractions are counted in units of 1 / Steps
Steps == 2

\* the worker threads of the pool
MaxWorkers == 2

Workers == {"worker-" \o ToString(i) : i \in 1..MaxWorkers}

\* the thread of main, which calls finish as the futures complete
MainThread == "main"

Threads == Workers \cup {MainThread}

TaskNames == {"a.webm", "b.webm"}

\* what the callers pass as fraction: below 0, within the range, above 1
Fractions == (0 - 1)..(Steps + 1)

NoThread == "free"

ThreadIdle == [pc |-> "idle", name |-> "", clamped |-> 0, force |-> FALSE,
               finishing |-> FALSE]

\* a lock that excludes nobody
LockFree_never_held(lock) == TRUE

\* with self._lock: the lock can be taken
LockFree(lock) == lock = NoThread

\* a value taken as it comes
Clamp_none(fraction) == fraction

\* clamped = max(0.0, min(1.0, fraction))
Clamp(fraction) ==
    LET capped == IF fraction < Steps THEN fraction ELSE Steps
    IN  IF capped > 0 THEN capped ELSE 0

TrackerCalls ==
    [fn : {"ProgressTracker"},
     fractions : {[name \in TaskNames |-> 0]},
     last_pct : {[name \in TaskNames |-> 0 - 1]},
     lock : {NoThread},
     threads : {[t \in Threads |-> ThreadIdle]},
     finished : {{}}]

InitTracker == Idle /\ call \in TrackerCalls /\ ret = NotReturned

\* update(input_name, fraction, force=force) takes the lock and clamps the value
EnterUpdate(t, name, fraction, force, finishing) ==
    /\ call.threads[t].pc = "idle"
    /\ LockFree(call.lock)
    /\ call' = [call EXCEPT !.lock = t,
                            !.threads[t] = [pc |-> "compare", name |-> name,
                                            clamped |-> Clamp(fraction), force |-> force,
                                            finishing |-> finishing]]
    /\ UNCHANGED <<download_vars, ret>>

\* a worker reports the progress of a conversion: lines 195, 199 and 201
Update ==
    /\ call.fn = "ProgressTracker"
    /\ \E t \in Workers, name \in TaskNames, fraction \in Fractions :
           EnterUpdate(t, name, fraction, fraction = Steps, FALSE)

\* main reports the end of a conversion: self.update(input_name, 1.0, force=True)
Finish ==
    /\ call.fn = "ProgressTracker"
    /\ \E name \in TaskNames \ call.finished :
           EnterUpdate(MainThread, name, Steps, TRUE, TRUE)

\* where a thread goes when update returns
AfterUpdate(thread) ==
    IF thread.finishing THEN [thread EXCEPT !.pc = "report"] ELSE ThreadIdle

\* if clamped < self._fractions.get(input_name, 0.0): return
Compare ==
    /\ call.fn = "ProgressTracker"
    /\ \E t \in Threads :
           LET thread == call.threads[t]
           IN  /\ thread.pc = "compare"
               /\ IF thread.clamped < call.fractions[thread.name]
                  THEN call' = [call EXCEPT !.lock = NoThread,
                                            !.threads[t] = AfterUpdate(thread)]
                  ELSE call' = [call EXCEPT !.threads[t].pc = "store"]
    /\ UNCHANGED <<download_vars, ret>>

\* lines 46-58: the fraction is stored, the line is emitted when it is due, and the
\* lock is released
Store ==
    /\ call.fn = "ProgressTracker"
    /\ \E t \in Threads :
           LET thread == call.threads[t]
               pct == (thread.clamped * 100) \div Steps
               should_emit == \/ thread.force
                              \/ pct >= 100
                              \/ pct - call.last_pct[thread.name] >= 2
           IN  /\ thread.pc = "store"
               /\ call' = [call EXCEPT
                              !.fractions[thread.name] = thread.clamped,
                              !.last_pct[thread.name] = IF should_emit THEN pct ELSE @,
                              !.lock = NoThread,
                              !.threads[t] = AfterUpdate(thread)]
    /\ UNCHANGED <<download_vars, ret>>

\* the second block of finish: the done / failed line is emitted under the lock
Report ==
    /\ call.fn = "ProgressTracker"
    /\ call.threads[MainThread].pc = "report"
    /\ LockFree(call.lock)
    /\ call' = [call EXCEPT !.threads[MainThread] = ThreadIdle,
                            !.finished = @ \cup {call.threads[MainThread].name}]
    /\ UNCHANGED <<download_vars, ret>>

NextTracker == Update \/ Finish \/ Compare \/ Store \/ Report

SpecTracker == InitTracker /\ [][NextTracker]_vars

\* C39: however the update and finish calls of the threads interleave, every file's
\* fraction is within [0, 1], no step lowers it, and it is 1 once finish(name) has
\* returned
C39_FractionsBoundedMonotone ==
    /\ [](call.fn = "ProgressTracker" =>
             /\ \A name \in TaskNames : call.fractions[name] \in 0..Steps
             /\ \A name \in call.finished : call.fractions[name] = Steps)
    /\ [][call.fn = "ProgressTracker" =>
             \A name \in TaskNames : call'.fractions[name] >= call.fractions[name]]_vars

\* a.webm is finished, b.webm is half done, and a worker holding the lock is about to
\* compare a lower value for a.webm while main waits to finish b.webm
C39_Witness ==
    /\ call.fn = "ProgressTracker"
    /\ call.finished = {"a.webm"}
    /\ call.fractions["a.webm"] = Steps
    /\ call.fractions["b.webm"] = 1
    /\ \E t \in Workers :
           /\ call.lock = t
           /\ call.threads[t].pc = "compare"
           /\ call.threads[t].name = "a.webm"
           /\ call.threads[t].clamped = 0

====
